---- MODULE Spec2Model ----
(***************************************************************************)
(* A model of the KB-card merchant crawler (CouMap/crawler).               *)
(*                                                                         *)
(*   Part 1  text helpers (str.lower, the "in" substring test)             *)
(*   Part 2  BaseCrawler: is_session_error, check_browser_health,          *)
(*           quick_recovery, execute_with_recovery, execute_simple         *)
(*   Part 3  the specification SpecExec of one call of                      *)
(*           execute_with_recovery, and the claims about it                *)
(*   Part 4  Crawler: the site, the wrapper methods around the session      *)
(*           operations, and the three traversals                          *)
(*           (crawl_single_region_with_recovery, crawl_single_region_smart,*)
(*           crawl_single_region_simple); the specification SpecCrawl      *)
(*   Part 5  the save path (BaseCrawler.save_store_data), the address      *)
(*           parser and the database; the specification SpecSave           *)
(*   Part 6  run_crawler and its report; the specification SpecRun         *)
(*   Part 7  engines writing to one database side by side; SpecWriters     *)
(*   Part 8  geocoding (IntegratedMapAPI.search_location and the scenario  *)
(*           loops of the two providers); the specification SpecGeo        *)
(*   Part 9  one Database call and its session; the specification SpecTxn  *)
(*   Part 10 the listings of one dong from the page to save_store_data     *)
(*           (pagination and save slices); the specification SpecRoute     *)
(*   Part 11 AddressParser.parse_address on its own; SpecParse             *)
(*   Part 12 AddressParser.compare_addresses; SpecCompare                  *)
(*   Part 13 Database.get_region_by_name; SpecLookup                       *)
(*   Part 14 the dong loop of a traversal and its total_stats; SpecLeaf    *)
(***************************************************************************)
EXTENDS Integers, Sequences, FiniteSets, TLC

VARIABLES
    ex_pc,        \* position of the single executor call: "ready" | "done"
    ex_enabled,   \* self.recovery_enabled at the time of the call
    ex_in,        \* what the wrapped function and the session do during the call
    ex_res        \* what the call did and how it ended

VARIABLES
    site,               \* the region tree the widget shows
    enable_recovery,    \* the argument of Crawler(enable_recovery=...)
    request,            \* the entry point called, and its three name filters
    recovery_enabled,   \* self.recovery_enabled
    recovery_attempts,  \* self.crawling_stats['recovery_attempts']
    location_agreed,    \* self.location_agreed
    frame,              \* the running traversal: its position and its locals
    total_stats,        \* the traversal's total_stats
    trace,              \* the calls of wrapper methods made so far, in order
    faults              \* how many more calls the session may disturb

VARIABLES
    db,              \* the database: its Region, Category and Store rows
    failed_stores,   \* self.failed_stores, the FailedLookup list
    csv_file,        \* the rows of the failed-store CSV file
    crawling_stats,  \* self.crawling_stats
    sv,              \* the running save_store_data call and its locals
    run              \* the caller of the save path, and what it has seen

VARIABLES
    report,          \* run_crawler: how far it is and what it reported
    writers,         \* engines that write to one database side by side
    geo              \* the running search_location call and its queries

VARIABLES
    txn,             \* the running Database call and its session
    route,           \* the listings of one dong leaf on their way to the save
    ap,              \* a call of AddressParser.parse_address
    dong_loop        \* the dong loop of a traversal and its total_stats

execVars == <<ex_pc, ex_enabled, ex_in, ex_res>>

saveVars == <<db, failed_stores, csv_file, crawling_stats, sv, run>>

crawlVars ==
    <<site, enable_recovery, request, recovery_enabled, recovery_attempts,
      location_agreed, frame, total_stats, trace, faults>>

unitVars == <<txn, route, ap, dong_loop>>

vars == <<execVars, crawlVars, saveVars, report, writers, geo, unitVars>>

\* What each specification leaves alone.
outsideExec == <<crawlVars, saveVars, report, writers, geo, unitVars>>
outsideCrawl == <<execVars, saveVars, report, writers, geo, unitVars>>
outsideSave == <<execVars, crawlVars, report, writers, geo, unitVars>>
outsideRun == <<execVars, saveVars, writers, geo, unitVars>>
outsideWriters ==
    <<execVars, crawlVars, report, failed_stores, csv_file, crawling_stats,
      sv, run, geo, unitVars>>
outsideGeo == <<execVars, crawlVars, saveVars, report, writers, unitVars>>
outsideTxn ==
    <<execVars, crawlVars, report, writers, geo, failed_stores, csv_file,
      crawling_stats, sv, run, route, ap, dong_loop>>
outsideRoute ==
    <<execVars, crawlVars, saveVars, report, writers, geo, txn, ap, dong_loop>>
outsideParse ==
    <<execVars, crawlVars, saveVars, report, writers, geo, txn, route, dong_loop>>
outsideLeaf ==
    <<execVars, crawlVars, saveVars, report, writers, geo, txn, route, ap>>

(***************************************************************************)
(* Part 1: text                                                            *)
(***************************************************************************)

\* Python's "needle in hay" on strings.
Contains(hay, needle) ==
    \E i \in 1..(Len(hay) - Len(needle) + 1) :
        SubSeq(hay, i, i + Len(needle) - 1) = needle

\* str.lower() on one character (the ASCII letters; others are unchanged).
LowerChar(c) ==
    CASE c = "A" -> "a" [] c = "B" -> "b" [] c = "C" -> "c" [] c = "D" -> "d"
      [] c = "E" -> "e" [] c = "F" -> "f" [] c = "G" -> "g" [] c = "H" -> "h"
      [] c = "I" -> "i" [] c = "J" -> "j" [] c = "K" -> "k" [] c = "L" -> "l"
      [] c = "M" -> "m" [] c = "N" -> "n" [] c = "O" -> "o" [] c = "P" -> "p"
      [] c = "Q" -> "q" [] c = "R" -> "r" [] c = "S" -> "s" [] c = "T" -> "t"
      [] c = "U" -> "u" [] c = "V" -> "v" [] c = "W" -> "w" [] c = "X" -> "x"
      [] c = "Y" -> "y" [] c = "Z" -> "z" [] OTHER -> c

RECURSIVE Lower(_)
Lower(s) ==
    IF Len(s) = 0 THEN ""
    ELSE LowerChar(SubSeq(s, 1, 1)) \o Lower(SubSeq(s, 2, Len(s)))

\* re.sub(pattern, '', s) and s.replace(pattern, '') for a pattern that is
\* a fixed text.
RECURSIVE RemoveAll(_, _)
RemoveAll(s, pattern) ==
    IF Len(s) < Len(pattern) THEN s
    ELSE IF SubSeq(s, 1, Len(pattern)) = pattern
         THEN RemoveAll(SubSeq(s, Len(pattern) + 1, Len(s)), pattern)
         ELSE SubSeq(s, 1, 1) \o RemoveAll(SubSeq(s, 2, Len(s)), pattern)

EndsWith(s, suffix) ==
    /\ Len(s) >= Len(suffix)
    /\ SubSeq(s, Len(s) - Len(suffix) + 1, Len(s)) = suffix

\* s.replace(',', ' ')
RECURSIVE CommasToBlanks(_)
CommasToBlanks(s) ==
    IF Len(s) = 0 THEN ""
    ELSE (IF SubSeq(s, 1, 1) = "," THEN " " ELSE SubSeq(s, 1, 1))
             \o CommasToBlanks(SubSeq(s, 2, Len(s)))

(***************************************************************************)
(* Part 2: BaseCrawler's recovery wrapper                                  *)
(***************************************************************************)

\* self.max_recovery_attempts, set in BaseCrawler.__init__ and never changed.
max_recovery_attempts == 2

session_keywords ==
    { "invalid session", "session not created", "chrome not reachable",
      "connection refused", "no such window", "disconnected",
      "target window already closed", "chrome has crashed",
      "session deleted because of page crash" }

\* A mutant of is_session_error: every error is taken for a session error.
is_session_error_always(error_msg) == TRUE

\* is_session_error(error): str(error).lower() contains one of the keywords.
is_session_error(error_msg) ==
    \E keyword \in session_keywords : Contains(Lower(error_msg), keyword)

\* The three probes of check_browser_health; a FALSE probe is one that raises.
Probes == [url : BOOLEAN, title : BOOLEAN, script : BOOLEAN]

\* check_browser_health(): current_url, title and a trivial script must all
\* answer; any exception gives False.
check_browser_health(probe) == probe.url /\ probe.title /\ probe.script

\* What the session does during one quick_recovery: driver.quit(),
\* setup_driver(), driver.get(KB_CARD_URL) succeed or raise, and the probes.
Recoveries == [quit : BOOLEAN, setup : BOOLEAN, get : BOOLEAN, probe : Probes]

\* A mutant of quick_recovery: the liveness probe's answer is ignored.
quick_recovery_no_probe(rec) == rec.setup /\ rec.get

\* quick_recovery(): a failing quit() is ignored; a failing setup_driver() or
\* get() is caught and gives False; otherwise the probe decides.
quick_recovery(rec) ==
    IF ~rec.setup \/ ~rec.get THEN FALSE
    ELSE IF check_browser_health(rec.probe) THEN TRUE ELSE FALSE

\* The exception raised at line 249 when the pre-retry health check fails.
HealthCheckFailed == "Browser health check failed"

\* One outcome of calling the wrapped function.
Return(v) == [kind |-> "return", value |-> v, msg |-> ""]
Raise(m) == [kind |-> "raise", value |-> "", msg |-> m]

\* An exception object: its message, the attempt that raised it and whether
\* the wrapped function ("op") or the wrapper ("health") raised it.
Error(m, attempt, src) == [msg |-> m, attempt |-> attempt, src |-> src]
NoError == [msg |-> "", attempt |-> -1, src |-> "none"]

\* What a page of the site can have that an operation depends on: the
\* set-up of access_website (popup handled, filter popup open, conditions
\* set), the selected province and district, and the results of a search.
PageState == {"setup", "province", "district", "search"}

\* The page after quick_recovery: a new driver and driver.get(KB_CARD_URL),
\* and nothing else.
FreshPage == {}

\* The bookkeeping of one call: last_error, and what was invoked, in order;
\* the page of the session (at the call, the one the caller has set up) and
\* the page each invocation of the function found.
ExecStart ==
    [last_error |-> NoError, opCalls |-> 0, recoverCalls |-> 0,
     healthCalls |-> 0, events |-> <<>>, page |-> PageState, pages |-> <<>>]

Did(st, ev) == [st EXCEPT !.events = Append(@, ev)]

\* How a call ends: "return result" (line 257) or "raise" (line 284).
Returned(st, v) ==
    [status |-> "returned", value |-> v, error |-> NoError,
     opCalls |-> st.opCalls, recoverCalls |-> st.recoverCalls,
     healthCalls |-> st.healthCalls, events |-> st.events,
     pages |-> st.pages]

\* A mutant of Raised: a fresh generic exception replaces last_error.
Raised_generic(st) ==
    [status |-> "raised", value |-> "",
     error |-> Error("all attempts failed", st.last_error.attempt, "wrapper"),
     opCalls |-> st.opCalls, recoverCalls |-> st.recoverCalls,
     healthCalls |-> st.healthCalls, events |-> st.events,
     pages |-> st.pages]

\* "raise last_error" (line 284).
Raised(st) ==
    [status |-> "raised", value |-> "", error |-> st.last_error,
     opCalls |-> st.opCalls, recoverCalls |-> st.recoverCalls,
     healthCalls |-> st.healthCalls, events |-> st.events,
     pages |-> st.pages]

\* A mutant of IsLastAttempt: off by one, recovery also after the last attempt.
IsLastAttempt_off_by_one(attempt) == attempt >= max_recovery_attempts

\* A mutant of IsLastAttempt: every attempt is taken for the last one.
IsLastAttempt_always(attempt) == attempt >= 0

\* "if attempt >= self.max_recovery_attempts - 1: break" (line 264).
IsLastAttempt(attempt) == attempt >= max_recovery_attempts - 1

\* A mutant of NeedsHealthCheck: no health check before a retry.
NeedsHealthCheck_never(attempt) == FALSE

\* "if attempt > 0 and not self.check_browser_health()" (line 248).
NeedsHealthCheck(attempt) == attempt > 0

\* The body of "for attempt in range(self.max_recovery_attempts)", from
\* attempt on. inp.ops[k] is what the function does in the k-th pass;
\* inp.health and inp.rec are what the session answers to the health check
\* and during quick_recovery (with two attempts each happens at most once).
RECURSIVE ExecLoop(_, _, _)
ExecLoop(inp, attempt, st) ==
    IF attempt >= max_recovery_attempts THEN Raised(st)
    ELSE
      LET k == attempt + 1
          checked == NeedsHealthCheck(attempt)
          unhealthy == checked /\ ~check_browser_health(inp.health)
          st1 == IF checked
                 THEN Did([st EXCEPT !.healthCalls = @ + 1],
                          IF unhealthy THEN "health_fail" ELSE "health_ok")
                 ELSE st
          out == IF unhealthy THEN Raise(HealthCheckFailed) ELSE inp.ops[k]
          st2 == IF unhealthy THEN st1
                 ELSE Did([st1 EXCEPT !.opCalls = @ + 1,
                                      !.pages = Append(@, st1.page)], "op")
      IN IF out.kind = "return" THEN Returned(st2, out.value)
         ELSE
           LET e == Error(out.msg, attempt, IF unhealthy THEN "health" ELSE "op")
               st3 == [st2 EXCEPT !.last_error = e]
           IN IF IsLastAttempt(attempt) THEN Raised(st3)
              ELSE IF is_session_error(e.msg)
              THEN LET ok == quick_recovery(inp.rec)
                       st4 == Did([st3 EXCEPT !.recoverCalls = @ + 1,
                                              !.page = IF ok THEN FreshPage
                                                       ELSE @],
                                  IF ok THEN "recover_ok" ELSE "recover_fail")
                   IN IF ok THEN ExecLoop(inp, attempt + 1, st4)
                      ELSE Raised(st4)
              ELSE Raised(st3)

\* func(*args, **kwargs) called directly: its result or its exception.
CallDirect(inp) ==
    LET st == Did([ExecStart EXCEPT !.opCalls = 1,
                                    !.pages = <<ExecStart.page>>], "op")
        out == inp.ops[1]
    IN IF out.kind = "return" THEN Returned(st, out.value)
       ELSE Raised([st EXCEPT !.last_error = Error(out.msg, 0, "op")])

\* execute_with_recovery(func): the function is called directly when
\* recovery is disabled, and inside the attempt loop otherwise.
execute_with_recovery(enabled, inp) ==
    IF ~enabled THEN CallDirect(inp)
    ELSE ExecLoop(inp, 0, ExecStart)

\* execute_simple(func).
execute_simple(inp) == CallDirect(inp)

(***************************************************************************)
(* Part 3: one call of execute_with_recovery (SpecExec)                    *)
(***************************************************************************)

\* Messages of the exceptions the wrapped function raises in the model: three
\* that selenium gives for a dead session (one of them capitalised, one
\* with two keywords inside a longer text), and three that are not about
\* the session.
SessionMessages ==
    { "Message: invalid session id",
      "Message: Chrome Not Reachable",
      "Message: no such window: target window already closed" }

OtherMessages ==
    { "Message: no such element",
      "filter popup open failed: filter_button_not_found",
      HealthCheckFailed }

Messages == SessionMessages \cup OtherMessages

Outcomes == {Return("result")} \cup {Raise(m) : m \in Messages}

Attempts == 1..max_recovery_attempts

\* All the inputs of one call.
ExecInputs ==
    [ops : [Attempts -> Outcomes], health : Probes, rec : Recoveries]

NoResult ==
    [status |-> "none", value |-> "", error |-> NoError, opCalls |-> 0,
     recoverCalls |-> 0, healthCalls |-> 0, events |-> <<>>,
     pages |-> <<>>]

\* No traversal: the crawler as constructed, nothing called.
NoFrame ==
    [proc |-> "none", at |-> "idle", provinces |-> <<>>, districts |-> <<>>,
     dongs |-> <<>>, pi |-> 0, di |-> 0, gi |-> 0, attempt |-> 0,
     original_recovery_state |-> TRUE, exc |-> ""]

NoStats == [regions_crawled |-> 0, total_stores |-> 0]

NoRequest ==
    [entry |-> "none", province_name |-> "", district_name |-> "",
     dong_name |-> ""]

\* The database before the first write.
EmptyDb == [regions |-> <<>>, categories |-> <<>>, stores |-> <<>>]

\* The local 'stats' of save_store_data.
NoSaveStats ==
    [saved |-> 0, skipped |-> 0, api_failed |-> 0, naver_success |-> 0,
     kakao_success |-> 0, duplicates |-> 0, errors |-> 0, new_regions |-> 0]

\* self.crawling_stats after BaseCrawler.__init__ (its recovery_attempts
\* is the variable recovery_attempts); the keys saved, skipped and
\* new_regions appear with the first update and are 0 until then.
NoCrawlingStats ==
    [total_found |-> 0, total_saved |-> 0, naver_success |-> 0,
     kakao_success |-> 0, api_failed |-> 0, duplicates |-> 0, errors |-> 0,
     saved |-> 0, skipped |-> 0, new_regions |-> 0]

\* The total_stats of a traversal.
NoTotals ==
    [regions_crawled |-> 0, total_stores |-> 0, total_saved |-> 0,
     api_success |-> 0, api_failed |-> 0]

NoSave == [at |-> "idle", n |-> 0, i |-> 0, stats |-> NoSaveStats]

NoRun ==
    [at |-> "none", plan |-> <<>>, b |-> 0, total |-> NoTotals,
     fault_left |-> FALSE, log |-> <<>>, returned |-> <<>>]

\* run_crawler has not been called.
NoReport ==
    [at |-> "none", stats_logged |-> FALSE, summary_saved |-> FALSE,
     success |-> FALSE]

\* No engine writes side by side with another.
NoWriters == [pc |-> <<>>, key |-> <<>>, seen |-> <<>>, overlapped |-> FALSE]

\* search_location has not been called.
NoGeo ==
    [at |-> "none", naver_api |-> FALSE, kakao_api |-> FALSE,
     store_name |-> "", address |-> "", cleaned_store_name |-> "",
     search_scenarios |-> <<>>, i |-> 0, sent |-> <<>>, upsets_left |-> 0,
     result |-> <<>>]

\* No Database call is running.
NoTxn ==
    [at |-> "idle", op |-> <<>>, fault |-> "none", before |-> <<>>,
     session |-> <<>>, occurred |-> <<>>, out |-> <<>>, calls_left |-> 0]

\* No leaf is being processed.
NoRoute ==
    [at |-> "none", engine |-> "none", auto_pagination |-> FALSE,
     page |-> <<>>, total_count |-> 0, paged_count |-> 0, batch_num |-> 0,
     paginated |-> FALSE, requested |-> <<>>, raised |-> {},
     batches |-> <<>>, all_results |-> <<>>,
     data |-> <<>>, stores_count |-> 0, i |-> 0, saved |-> <<>>]

\* parse_address has not been called.
NoParse ==
    [at |-> "none", address |-> "", other |-> "", parsed |-> <<>>,
     compared |-> <<>>]

\* No dong loop is running.
NoLeaf ==
    [at |-> "none", engine |-> "none", dongs |-> 0, k |-> 0,
     auto_pagination |-> FALSE, left |-> 0, fault_left |-> FALSE,
     total_count |-> 0, n |-> 0, i |-> 0, stats |-> NoSaveStats,
     db |-> EmptyDb, failed_stores |-> <<>>, total_stats |-> NoTotals,
     history |-> <<>>]

UnitIdle ==
    txn = NoTxn /\ route = NoRoute /\ ap = NoParse /\ dong_loop = NoLeaf

SaveIdle ==
    /\ UnitIdle
    /\ geo = NoGeo
    /\ report = NoReport
    /\ writers = NoWriters
    /\ db = EmptyDb
    /\ failed_stores = <<>>
    /\ csv_file = {}
    /\ crawling_stats = NoCrawlingStats
    /\ sv = NoSave
    /\ run = NoRun

CrawlIdle ==
    /\ site = <<>>
    /\ enable_recovery = TRUE
    /\ request = NoRequest
    /\ recovery_enabled = TRUE
    /\ recovery_attempts = 0
    /\ location_agreed = FALSE
    /\ frame = NoFrame
    /\ total_stats = NoStats
    /\ trace = <<>>
    /\ faults = 0

InitExec ==
    /\ ex_pc = "ready"
    /\ ex_enabled \in BOOLEAN
    /\ ex_in \in ExecInputs
    /\ ex_res = NoResult
    /\ CrawlIdle
    /\ SaveIdle

\* The call itself.
ExecCall ==
    /\ ex_pc = "ready"
    /\ ex_res' = execute_with_recovery(ex_enabled, ex_in)
    /\ ex_pc' = "done"
    /\ UNCHANGED <<ex_enabled, ex_in>>
    /\ UNCHANGED outsideExec

NextExec == ExecCall

SpecExec == InitExec /\ [][NextExec]_vars

(***************************************************************************)
(* Claims about one call of execute_with_recovery (under SpecExec)         *)
(***************************************************************************)

\* The claims' own reading of "session-fatal": the lower-cased message
\* contains one of the fixed markers.
HasMarker(msg) == \E marker \in session_keywords : Contains(Lower(msg), marker)

AllProbesPass(probe) == probe.url /\ probe.title /\ probe.script

\* The call has ended and recovery was enabled for it.
ExecDone == ex_pc = "done" /\ ex_enabled

\* The k-th invocation of the wrapped function happened and raised.
OpRaisedAt(k) == k <= ex_res.opCalls /\ ex_in.ops[k].kind = "raise"

\* The first invocation raised a session-fatal error.
FirstRaisedFatal == OpRaisedAt(1) /\ HasMarker(ex_in.ops[1].msg)

\* The session lets quick_recovery succeed: a new session is acquired, the
\* entry point is loaded and the liveness probe passes.
RecoveryCanSucceed ==
    ex_in.rec.setup /\ ex_in.rec.get /\ AllProbesPass(ex_in.rec.probe)

LastEvent(res) == res.events[Len(res.events)]

\* C1: with recovery enabled and max_recovery_attempts = 2, one call of
\* execute_with_recovery invokes the wrapped function at most twice and
\* quick_recovery at most once, whatever the function and the session do.
C1_AtMostTwoCallsOneRecovery ==
    ExecDone => ex_res.opCalls <= 2 /\ ex_res.recoverCalls <= 1

\* C1 witness: a call that used both attempts and the one recovery.
C1_Witness ==
    ExecDone /\ ex_res.opCalls = 2 /\ ex_res.recoverCalls = 1

\* C2 as stated: whenever an invocation of the wrapped function raises an
\* error without a session-fatal marker, the function was invoked exactly
\* once, quick_recovery never, and that error is raised to the caller.
C2_Original ==
    ex_pc = "done" =>
        \A k \in Attempts :
            OpRaisedAt(k) /\ ~HasMarker(ex_in.ops[k].msg) =>
                /\ ex_res.opCalls = 1
                /\ ex_res.recoverCalls = 0
                /\ ex_res.status = "raised"
                /\ ex_res.error = Error(ex_in.ops[k].msg, k - 1, "op")

\* C2 amended: an invocation that raises an error without a session-fatal
\* marker is the last thing the call does (no further invocation, no
\* quick_recovery after it) and that same error is raised to the caller;
\* when it is the first invocation, the function was invoked exactly once
\* and quick_recovery never.
C2_NonFatalErrorEndsTheCall ==
    ex_pc = "done" =>
        \A k \in Attempts :
            OpRaisedAt(k) /\ ~HasMarker(ex_in.ops[k].msg) =>
                /\ ex_res.opCalls = k
                /\ LastEvent(ex_res) = "op"
                /\ ex_res.status = "raised"
                /\ ex_res.error = Error(ex_in.ops[k].msg, k - 1, "op")
                /\ (k = 1 => ex_res.recoverCalls = 0)

\* C2 witness: recovery enabled, the first invocation raised a non-fatal
\* error.
C2_Witness ==
    /\ ExecDone
    /\ OpRaisedAt(1)
    /\ ~HasMarker(ex_in.ops[1].msg)
    /\ ex_res.opCalls = 1

\* C3 as stated: every successful quick_recovery is followed by a further
\* invocation of the wrapped function.
C3_Original ==
    ExecDone =>
        \A i \in 1..Len(ex_res.events) :
            ex_res.events[i] = "recover_ok" =>
                \E j \in (i + 1)..Len(ex_res.events) : ex_res.events[j] = "op"

\* C3 amended: after a session-fatal error on the first attempt and a
\* successful quick_recovery, the wrapped function is invoked again if the
\* browser health check made before the retry passes; if that check fails
\* the call fails with "Browser health check failed" and the function is
\* not invoked again.
C3_RerunAfterRecoveryIfHealthy ==
    ExecDone /\ FirstRaisedFatal /\ RecoveryCanSucceed =>
        IF AllProbesPass(ex_in.health)
        THEN /\ ex_res.opCalls = 2
             /\ ex_res.events = <<"op", "recover_ok", "health_ok", "op">>
        ELSE /\ ex_res.opCalls = 1
             /\ ex_res.events = <<"op", "recover_ok", "health_fail">>
             /\ ex_res.status = "raised"
             /\ ex_res.error = Error(HealthCheckFailed, 1, "health")

\* C3 witness: a recovery that succeeded and was followed by the re-run.
C3_Witness ==
    /\ ExecDone /\ FirstRaisedFatal /\ RecoveryCanSucceed
    /\ AllProbesPass(ex_in.health)
    /\ ex_res.opCalls = 2

\* C4: if the first attempt raises a session-fatal error and quick_recovery
\* fails (setup_driver or get raises, or the liveness probe fails), the
\* function is not invoked again and the call fails with the error the
\* function raised.
C4_FailedRecoveryRaisesOriginal ==
    ExecDone /\ FirstRaisedFatal /\ ~RecoveryCanSucceed =>
        /\ ex_res.opCalls = 1
        /\ ex_res.recoverCalls = 1
        /\ LastEvent(ex_res) = "recover_fail"
        /\ ex_res.status = "raised"
        /\ ex_res.error = Error(ex_in.ops[1].msg, 0, "op")

\* C4 witness: a new session was acquired and loaded, and its liveness
\* probe failed.
C4_Witness ==
    /\ ExecDone /\ FirstRaisedFatal
    /\ ex_in.rec.setup /\ ex_in.rec.get /\ ~AllProbesPass(ex_in.rec.probe)
    /\ ex_res.status = "raised"

\* C5: if the function raises on the last allowed attempt, the call fails
\* with that error, the last one observed, and quick_recovery is not called
\* for it, also when the error is session-fatal.
C5_LastAttemptRaisesLastError ==
    ExecDone /\ OpRaisedAt(max_recovery_attempts) =>
        /\ ex_res.status = "raised"
        /\ ex_res.error =
             Error(ex_in.ops[max_recovery_attempts].msg,
                   max_recovery_attempts - 1, "op")
        /\ LastEvent(ex_res) = "op"
        /\ ex_res.recoverCalls = max_recovery_attempts - 1

\* C5 witness: the last attempt raised a session-fatal error, other than
\* the error of the first attempt.
C5_Witness ==
    /\ ExecDone /\ OpRaisedAt(max_recovery_attempts)
    /\ HasMarker(ex_in.ops[max_recovery_attempts].msg)
    /\ ex_in.ops[max_recovery_attempts].msg # ex_in.ops[1].msg

(***************************************************************************)
(* Part 4: the Crawler (src/crawler/crawler.py)                            *)
(***************************************************************************)

\* ---- the site ----------------------------------------------------------
\* A site is the tree the widget shows: a sequence of provinces, each a
\* sequence of districts, each the number of its dongs.  Names go by
\* position; the option value of a province or district is its position,
\* the index of a dong counts from 0.
ProvinceName(i) ==
    CASE i = 1 -> "Seoul" [] i = 2 -> "Busan" [] OTHER -> "Jeju"

DistrictName(j) ==
    CASE j = 1 -> "Gangnam-gu" [] j = 2 -> "Gangdong-gu" [] OTHER -> "Songpa-gu"

DongName(k) ==
    CASE k = 1 -> "Irwonbon-dong" [] k = 2 -> "Irwon1-dong" [] OTHER -> "Suseo-dong"

\* len(resultMinsJson) after the search of the k-th dong of a district.
StoreCount(k) == CASE k = 1 -> 2 [] k = 2 -> 501 [] OTHER -> 0

PaginationThreshold == 500

ProvinceList(s) == [i \in 1..Len(s) |-> [name |-> ProvinceName(i), value |-> i]]

DistrictList(s, p) ==
    [j \in 1..Len(s[p]) |-> [name |-> DistrictName(j), value |-> j]]

DongList(s, p, d) ==
    [k \in 1..s[p][d] |-> [name |-> DongName(k), index |-> k - 1]]

Sites ==
    { <<>>,
      << <<>> >>,
      << <<0>> >>,
      << <<1>> >>,
      << <<3>> >>,
      << <<2, 1>> >>,
      << <<1, 0, 2>> >>,
      << <<2>>, <<1>> >>,
      << <<2, 1>>, <<1>> >>,
      << <<1>>, <<>>, <<1, 1>> >> }

\* The site of the runs in which the session fails.
FaultSite == << <<2, 1>>, <<1>> >>

\* ---- the calls of an entry point ---------------------------------------
\* None is written "" (both are false in an if).
Request(entry, p, d, g) ==
    [entry |-> entry, province_name |-> p, district_name |-> d,
     dong_name |-> g]

Requests ==
    { Request("crawl_all_regions", "", "", ""),
      Request("crawl_single_region", "Seoul", "", ""),
      Request("crawl_single_region", "Busan", "", ""),
      Request("crawl_single_region", "Daegu", "", ""),
      Request("crawl_single_region", "Seoul", "Gangnam-gu", ""),
      Request("crawl_single_region", "Seoul", "Gang", ""),
      Request("crawl_single_region", "Seoul", "Gangnam-gu", "Irwonbon-dong"),
      Request("crawl_single_region", "Seoul", "Gangnam-gu", "Irwon"),
      Request("crawl_single_region", "Seoul", "Gangdong-gu", "Irwon1-dong"),
      Request("crawl_single_region", "Seoul", "", "Irwon"),
      Request("crawl_single_region_with_recovery", "Seoul", "", ""),
      Request("crawl_single_region_with_recovery", "", "Gang", ""),
      Request("crawl_single_region_with_recovery", "Seoul", "Gangdong-gu", ""),
      Request("crawl_single_region_with_recovery", "", "Gang", "Irwon"),
      Request("crawl_single_region_with_recovery", "", "", "Irwon1"),
      Request("crawl_single_region_with_recovery", "Busan", "Gangnam-gu",
              "Irwonbon-dong") }

\* The number of calls of wrapper methods that the session may disturb in
\* one run.
MaxFaults == 1

\* ---- what the session does during one call of a wrapper method ---------
AllPass == [url |-> TRUE, title |-> TRUE, script |-> TRUE]

GoodRecovery == [quit |-> TRUE, setup |-> TRUE, get |-> TRUE, probe |-> AllPass]

\* Nothing goes wrong.
CleanRun ==
    [ops |-> [k \in Attempts |-> Return("result")], health |-> AllPass,
     rec |-> GoodRecovery]

\* The first invocation raises an error that is not about the session.
NonFatalRun ==
    [CleanRun EXCEPT !.ops[1] = Raise("Message: no such element")]

\* The session dies during the first invocation; a new one can be had and
\* the second invocation succeeds.
RecoveredRun ==
    [CleanRun EXCEPT !.ops[1] = Raise("Message: invalid session id")]

\* The session dies during every invocation.
ExhaustedRun ==
    [CleanRun EXCEPT !.ops = [k \in Attempts |->
                                 Raise("Message: invalid session id")]]

FaultyRuns == {NonFatalRun, RecoveredRun, ExhaustedRun}

\* A wrapper method whose implementation calls n other wrapper methods:
\* what happens in its own session operations (main) and in theirs
\* (nested).  At most one of them is disturbed.
Draws(n) ==
    { [main |-> m, nested |-> [j \in 1..n |-> CleanRun]] :
          m \in {CleanRun} \cup FaultyRuns }
    \cup
    { [main |-> CleanRun,
       nested |-> [j \in 1..n |-> IF j = i THEN ExhaustedRun ELSE CleanRun]] :
          i \in 1..n }

IsFaulty(x) ==
    \/ x.main # CleanRun
    \/ \E j \in 1..Len(x.nested) : x.nested[j] # CleanRun

\* ---- a wrapper method --------------------------------------------------
\* Every wrapper method has the same shape:
\*     try:
\*         if self.recovery_enabled: return self.execute_with_recovery(impl)
\*         else:                     return self.execute_simple(impl)
\*     except Exception as e:
\*         logger.error(...); return <fallback>
Dispatch(enabled, inp) ==
    IF enabled THEN execute_with_recovery(enabled, inp) ELSE execute_simple(inp)

Via(enabled) == IF enabled THEN "execute_with_recovery" ELSE "execute_simple"

\* The except clause: the error is logged and the fallback value returned.
Swallow_rethrow(r) ==
    [ok |-> r.status = "returned", raised |-> r.status = "raised",
     msg |-> r.error.msg]

Swallow(r) == [ok |-> r.status = "returned", raised |-> FALSE, msg |-> ""]

\* One entry of the trace: the call of wrapper method op made at call
\* site at with argument arg, and what the executor did for it.
Entry(op, at, arg, enabled, r) ==
    [op |-> op, at |-> at, arg |-> arg, ok |-> r.status = "returned",
     calls |-> r.opCalls, recoveries |-> r.recoverCalls,
     via |-> Via(enabled), err |-> r.error.msg, pages |-> r.pages]

RECURSIVE Repeat(_, _)
Repeat(seq, n) == IF n = 0 THEN <<>> ELSE seq \o Repeat(seq, n - 1)

RECURSIVE SumRecoveries(_)
SumRecoveries(entries) ==
    IF entries = <<>> THEN 0
    ELSE Head(entries).recoveries + SumRecoveries(Tail(entries))

\* The wrapper methods an implementation calls itself, in order.
NestedOf(op, agreed) ==
    CASE op = "access_website" ->
             (IF agreed THEN <<>> ELSE <<"handle_location_agreement">>)
             \o <<"open_filter_popup", "set_search_conditions">>
      [] op = "select_dong_and_search" ->
             <<"complete_area_selection", "execute_search_from_popup">>
      [] op = "reopen_area_selection" -> <<"open_filter_popup">>
      [] OTHER -> <<>>

\* How often the implementation reached its nested calls:
\* reopen_area_selection makes its nested call first, the others after
\* their own session operation has returned.
NestedTimes(op, r, x) ==
    IF op = "reopen_area_selection" THEN r.opCalls
    ELSE Cardinality({k \in 1..r.opCalls : x.main.ops[k].kind = "return"})

\* One call of a wrapper method: the result seen by the caller, and the
\* trace entries of the call and of its nested calls.
WrapperCall(op, at, arg, enabled, agreed, x) ==
    LET names == NestedOf(op, agreed)
        r == Dispatch(enabled, x.main)
        nested == [j \in 1..Len(names) |->
                      Entry(names[j], op, <<>>, enabled,
                            Dispatch(enabled, x.nested[j]))]
        all == Repeat(nested, NestedTimes(op, r, x))
                   \o <<Entry(op, at, arg, enabled, r)>>
        out == Swallow(r)
    IN  [ok |-> out.ok, raised |-> out.raised, msg |-> out.msg,
         entries |-> all, recoveries |-> SumRecoveries(all),
         agreed |-> agreed \/ \E j \in 1..Len(all) :
                       all[j].op = "handle_location_agreement" /\ all[j].ok]

\* ---- shared pieces of the traversals -----------------------------------
\* "filter in name", with None never asked.
In(filter, name) == Contains(name, filter)

\* The first position from k on whose name the filter admits: 0 if none.
FirstFrom(list, filter, k) ==
    LET hits == {i \in k..Len(list) : filter = "" \/ In(filter, list[i].name)}
    IN  IF hits = {} THEN 0 ELSE CHOOSE i \in hits : \A h \in hits : i <= h

At(f, label) == [f EXCEPT !.at = label]

Returning(f) == [f EXCEPT !.at = "returning"]

Raising(f, msg) == [f EXCEPT !.at = "raised", !.exc = msg]

SiteAccessFailed == "site access failed"

ProvinceListFailed == "province list lookup failed"

\* ---- crawl_single_region_with_recovery: _crawl_with_recovery ------------
\* The loops, from the outermost: where the traversal goes next.
\* "for province in provinces", from position i on.
R_ScanProvince(f, i) ==
    LET i2 == FirstFrom(f.provinces, request.province_name, i)
    IN  IF i2 = 0 THEN Returning(f)
        ELSE [f EXCEPT !.pi = i2, !.di = 0, !.gi = 0, !.districts = <<>>,
                       !.dongs = <<>>, !.at = "districts"]

\* (variant: the loop over the provinces ends after its first province)
R_EndDistricts_first_only(f) == Returning(f)

\* After the loop over the districts of province f.pi.
R_EndDistricts(f) ==
    IF request.province_name # "" THEN Returning(f)
    ELSE IF f.pi < Len(f.provinces) THEN At(f, "reopen_province")
    ELSE R_ScanProvince(f, f.pi + 1)

\* "for district in districts", from position j on.
R_ScanDistrict(f, j) ==
    LET j2 == FirstFrom(f.districts, request.district_name, j)
    IN  IF j2 = 0 THEN R_EndDistricts(f)
        ELSE [f EXCEPT !.di = j2, !.gi = 0, !.dongs = <<>>, !.at = "dongs"]

\* (variant: a district filter does not end the run)
R_EndDongs_sweeps_on(f) ==
    IF f.di < Len(f.districts) THEN At(f, "reopen_district")
    ELSE R_ScanDistrict(f, f.di + 1)

\* After the loop over the dongs of district f.di.
R_EndDongs(f) ==
    IF request.district_name # "" THEN Returning(f)
    ELSE IF f.di < Len(f.districts) THEN At(f, "reopen_district")
    ELSE R_ScanDistrict(f, f.di + 1)

\* "for dong in dongs", from position k on.
R_ScanDong(f, k) ==
    LET k2 == FirstFrom(f.dongs, request.dong_name, k)
    IN  IF k2 = 0 THEN R_EndDongs(f)
        ELSE [f EXCEPT !.gi = k2, !.at = "select"]

\* (variant: the next dong is taken without reopening the popup)
R_AfterDong_no_reopen(f) ==
    IF request.dong_name # "" THEN Returning(f)
    ELSE R_ScanDong(f, f.gi + 1)

\* After the search of dong f.gi, whether it succeeded or not.
R_AfterDong(f) ==
    IF request.dong_name # "" THEN Returning(f)
    ELSE IF f.gi < Len(f.dongs) THEN At(f, "reopen_dong")
    ELSE R_ScanDong(f, f.gi + 1)

\* The statement after the call at f.at, which returned list (a listing)
\* or succeeded or not (ok).
R_After(f, ok, list) ==
    CASE f.at = "access" ->
             IF ok THEN At(f, "provinces") ELSE Raising(f, SiteAccessFailed)
      [] f.at = "provinces" ->
             IF ok /\ list # <<>>
             THEN R_ScanProvince([f EXCEPT !.provinces = list], 1)
             ELSE Raising(f, ProvinceListFailed)
      [] f.at = "districts" ->
             R_ScanDistrict([f EXCEPT !.districts = IF ok THEN list ELSE <<>>], 1)
      [] f.at = "dongs" ->
             R_ScanDong([f EXCEPT !.dongs = IF ok THEN list ELSE <<>>], 1)
      [] f.at = "select" -> IF ok THEN At(f, "extract") ELSE R_AfterDong(f)
      [] f.at = "extract" -> R_AfterDong(f)
      [] f.at = "reopen_dong" -> At(f, "reselect_province_g")
      [] f.at = "reselect_province_g" -> At(f, "reselect_district_g")
      [] f.at = "reselect_district_g" -> R_ScanDong(f, f.gi + 1)
      [] f.at = "reopen_district" -> At(f, "reselect_province_d")
      [] f.at = "reselect_province_d" -> R_ScanDistrict(f, f.di + 1)
      [] f.at = "reopen_province" -> R_ScanProvince(f, f.pi + 1)

\* ---- crawl_single_region_smart ------------------------------------------
\* "for district_idx, district in enumerate(target_districts, 1)", from j.
S_Districts(f, j) ==
    IF j > Len(f.districts) THEN Returning(f)
    ELSE IF j > 1 THEN [f EXCEPT !.di = j, !.gi = 0, !.at = "reopen_district"]
    ELSE [f EXCEPT !.di = j, !.gi = 0, !.at = "dongs"]

\* After the loop over target_dongs.
S_EndDongs(f) ==
    IF request.district_name # "" THEN Returning(f)
    ELSE S_Districts(f, f.di + 1)

\* "for dong_idx, dong in enumerate(target_dongs, 1)", from k.
S_Dong(f, k) ==
    IF k > Len(f.dongs) THEN S_EndDongs(f)
    ELSE IF k > 1 THEN [f EXCEPT !.gi = k, !.at = "reopen_dong"]
    ELSE [f EXCEPT !.gi = k, !.at = "select"]

S_After(f, ok, list) ==
    CASE f.at = "access" -> IF ok THEN At(f, "provinces") ELSE Returning(f)
      [] f.at = "provinces" ->
             LET provinces == IF ok THEN list ELSE <<>>
                 i == FirstFrom(provinces, request.province_name, 1)
             IN  IF i = 0 THEN Returning(f)
                 ELSE [f EXCEPT !.provinces = provinces, !.pi = i,
                                !.at = "districts"]
      [] f.at = "districts" ->
             LET districts == IF ok THEN list ELSE <<>>
                 j == FirstFrom(districts, request.district_name, 1)
             IN  IF districts = <<>> \/ j = 0 THEN Returning(f)
                 ELSE S_Districts(
                          [f EXCEPT !.districts =
                               IF request.district_name # ""
                               THEN <<districts[j]>> ELSE districts], 1)
      [] f.at = "dongs" ->
             LET dongs == IF ok THEN list ELSE <<>>
                 k == FirstFrom(dongs, request.dong_name, 1)
             IN  IF dongs = <<>> \/ k = 0 THEN S_Districts(f, f.di + 1)
                 ELSE S_Dong(
                          [f EXCEPT !.dongs =
                               IF request.dong_name # ""
                               THEN <<dongs[k]>> ELSE dongs], 1)
      [] f.at = "select" -> IF ok THEN At(f, "extract") ELSE S_Dong(f, f.gi + 1)
      [] f.at = "extract" ->
             IF request.dong_name # "" /\ StoreCount(f.dongs[f.gi].index + 1) # 0
             THEN S_EndDongs(f)
             ELSE S_Dong(f, f.gi + 1)
      [] f.at = "reopen_dong" -> At(f, "reselect_province_g")
      [] f.at = "reselect_province_g" -> At(f, "reselect_district_g")
      [] f.at = "reselect_district_g" -> At(f, "select")
      [] f.at = "reopen_district" -> At(f, "reselect_province_d")
      [] f.at = "reselect_province_d" -> At(f, "dongs")

\* ---- crawl_single_region_simple -----------------------------------------
P_After(f, ok, list) ==
    CASE f.at = "access" -> IF ok THEN At(f, "provinces") ELSE Returning(f)
      [] f.at = "provinces" ->
             LET provinces == IF ok THEN list ELSE <<>>
                 i == FirstFrom(provinces, request.province_name, 1)
             IN  IF i = 0 THEN Returning(f)
                 ELSE [f EXCEPT !.provinces = provinces, !.pi = i,
                                !.at = "districts"]
      [] f.at = "districts" ->
             LET districts == IF ok THEN list ELSE <<>>
                 j == FirstFrom(districts, request.district_name, 1)
             IN  IF j = 0 THEN Returning(f)
                 ELSE [f EXCEPT !.districts = districts, !.di = j,
                                !.at = "dongs"]
      [] f.at = "dongs" ->
             LET dongs == IF ok THEN list ELSE <<>>
                 k == FirstFrom(dongs, request.dong_name, 1)
             IN  IF dongs = <<>> THEN Returning(f)
                 ELSE [f EXCEPT !.dongs = dongs,
                                !.gi = IF k = 0 THEN 1 ELSE k, !.at = "select"]
      [] f.at = "select" -> IF ok THEN At(f, "extract") ELSE Returning(f)
      [] f.at = "extract" -> Returning(f)

After(f, ok, list) ==
    CASE f.proc = "with_recovery" -> R_After(f, ok, list)
      [] f.proc = "smart" -> S_After(f, ok, list)
      [] f.proc = "simple" -> P_After(f, ok, list)

\* ---- the run ------------------------------------------------------------
TestRegion ==
    [province_name |-> "Seoul", district_name |-> "Gangnam-gu",
     dong_name |-> "Irwonbon-dong"]

\* crawl_all_regions and crawl_single_region: which traversal runs.
ProcOf(req) ==
    IF req.entry = "crawl_single_region"
    THEN IF /\ req.province_name = TestRegion.province_name
            /\ req.district_name = TestRegion.district_name
            /\ req.dong_name = TestRegion.dong_name
         THEN "simple" ELSE "smart"
    ELSE "with_recovery"

\* (variant: crawl_single_region_simple leaves the setting as it finds it)
RecoveryAtStart_simple_keeps(proc, enabled) ==
    IF proc = "with_recovery" THEN TRUE ELSE enabled

\* self.recovery_enabled as the traversal sets it before its first call.
RecoveryAtStart(proc, enabled) ==
    CASE proc = "with_recovery" -> TRUE
      [] proc = "simple" -> FALSE
      [] OTHER -> enabled

\* The values of the province and the district the traversal is in.
CurProvince == frame.provinces[frame.pi].value

CurDistrict == frame.districts[frame.di].value

CurDong == frame.dongs[frame.gi].index

\* One call of a wrapper method at the current call site, and the step to
\* the next call site.
Call(op, arg, x, list) ==
    LET c == WrapperCall(op, frame.at, arg, recovery_enabled,
                         location_agreed, x)
    IN  /\ IsFaulty(x) => faults > 0
        /\ faults' = IF IsFaulty(x) THEN faults - 1 ELSE faults
        /\ trace' = trace \o c.entries
        /\ recovery_attempts' = recovery_attempts + c.recoveries
        /\ location_agreed' = c.agreed
        /\ frame' = IF c.raised THEN Raising(frame, c.msg)
                    ELSE After(frame, c.ok, list)
        /\ UNCHANGED <<site, enable_recovery, request, recovery_enabled>>
        /\ UNCHANGED outsideCrawl

Start ==
    /\ frame.at = "idle"
    /\ request.entry # "none"
    /\ frame' = [NoFrame EXCEPT !.proc = ProcOf(request), !.at = "access",
                                !.original_recovery_state = recovery_enabled]
    /\ recovery_enabled' = RecoveryAtStart(ProcOf(request), recovery_enabled)
    /\ total_stats' = NoStats
    /\ UNCHANGED <<site, enable_recovery, request, recovery_attempts,
                   location_agreed, trace, faults>>
    /\ UNCHANGED outsideCrawl

AccessWebsite ==
    /\ frame.at = "access"
    /\ \E x \in Draws(Len(NestedOf("access_website", location_agreed))) :
           Call("access_website", <<>>, x, <<>>)
    /\ UNCHANGED total_stats

GetAllRegions ==
    /\ frame.at = "provinces"
    /\ \E x \in Draws(0) :
           Call("get_all_regions_from_site", <<>>, x, ProvinceList(site))
    /\ UNCHANGED total_stats

GetDistricts ==
    /\ frame.at \in {"districts", "reselect_province_g", "reselect_province_d"}
    /\ \E x \in Draws(0) :
           Call("get_districts_for_province", <<CurProvince>>, x,
                DistrictList(site, CurProvince))
    /\ UNCHANGED total_stats

GetDongs ==
    /\ frame.at \in {"dongs", "reselect_district_g"}
    /\ \E x \in Draws(0) :
           Call("get_dongs_for_district", <<CurProvince, CurDistrict>>, x,
                DongList(site, CurProvince, CurDistrict))
    /\ UNCHANGED total_stats

SelectDong ==
    /\ frame.at = "select"
    /\ \E x \in Draws(2) :
           Call("select_dong_and_search",
                <<CurProvince, CurDistrict, CurDong>>, x, <<>>)
    /\ UNCHANGED total_stats

\* Which extraction the traversal uses for a result of count listings.
Paginates(proc, count) == proc # "simple" /\ count > PaginationThreshold

\* get_total_data_count, then extract_data_with_pagination or extract_data,
\* then the statistics.
ExtractData ==
    /\ frame.at = "extract"
    /\ LET count == StoreCount(CurDong + 1)
           paged == Paginates(frame.proc, count)
           empty == frame.proc = "smart" /\ count = 0
       IN  \E x \in Draws(0) :
             /\ (paged \/ empty) => ~IsFaulty(x)
             /\ IF paged \/ empty
                THEN /\ frame' = After(frame, TRUE, <<>>)
                     /\ UNCHANGED <<trace, recovery_attempts, location_agreed,
                                    faults, site, enable_recovery, request,
                                    recovery_enabled>>
                     /\ UNCHANGED outsideCrawl
                ELSE Call("extract_data", <<CurProvince, CurDistrict, CurDong>>,
                          x, <<>>)
             /\ LET stores == IF paged \/ Dispatch(recovery_enabled, x.main).status
                                              = "returned"
                              THEN count ELSE 0
                IN  total_stats' =
                        IF empty \/ stores > 0
                        THEN [regions_crawled |-> total_stats.regions_crawled + 1,
                              total_stores |-> total_stats.total_stores + stores]
                        ELSE total_stats

ReopenAreaSelection ==
    /\ frame.at \in {"reopen_dong", "reopen_district", "reopen_province"}
    /\ \E x \in Draws(1) : Call("reopen_area_selection", <<>>, x, <<>>)
    /\ UNCHANGED total_stats

RecoveryDraws == {GoodRecovery, [GoodRecovery EXCEPT !.setup = FALSE]}

ProbeDraws == {AllPass, [AllPass EXCEPT !.script = FALSE]}

\* An exception left the traversal.  crawl_single_region_with_recovery runs
\* _crawl_with_recovery through execute_with_recovery and returns
\* total_stats if that raises; the other two return total_stats at once.
HandleException ==
    /\ frame.at = "raised"
    /\ \E rec \in RecoveryDraws, probe \in ProbeDraws :
         LET retry == /\ frame.proc = "with_recovery"
                      /\ ~IsLastAttempt(frame.attempt)
                      /\ is_session_error(frame.exc)
             again == retry /\ quick_recovery(rec) /\ check_browser_health(probe)
         IN  /\ recovery_attempts' = recovery_attempts + (IF retry THEN 1 ELSE 0)
             /\ frame' = IF again
                         THEN [NoFrame EXCEPT !.proc = frame.proc, !.at = "access",
                                   !.attempt = frame.attempt + 1,
                                   !.original_recovery_state =
                                       frame.original_recovery_state]
                         ELSE Returning(frame)
    /\ UNCHANGED <<site, enable_recovery, request, recovery_enabled,
                   location_agreed, total_stats, trace, faults>>
    /\ UNCHANGED outsideCrawl

\* return total_stats; crawl_single_region_simple restores the recovery
\* setting in its finally clause.
ReturnStats ==
    /\ frame.at = "returning"
    /\ frame' = At(frame, "done")
    /\ recovery_enabled' =
           IF frame.proc = "simple" /\ frame.original_recovery_state
           THEN TRUE ELSE recovery_enabled
    /\ UNCHANGED <<site, enable_recovery, request, recovery_attempts,
                   location_agreed, total_stats, trace, faults>>
    /\ UNCHANGED outsideCrawl

ExecIdle ==
    /\ ex_pc = "done"
    /\ ex_enabled = TRUE
    /\ ex_in = CleanRun
    /\ ex_res = NoResult

\* Crawler(enable_recovery), one site, one call of an entry point.  The
\* session fails only in runs over FaultSite.
InitCrawl ==
    /\ ExecIdle
    /\ SaveIdle
    /\ enable_recovery \in BOOLEAN
    /\ recovery_enabled = enable_recovery
    /\ \/ site \in Sites /\ request \in Requests /\ faults = 0
       \/ site = FaultSite /\ request \in Requests /\ faults = MaxFaults
    /\ recovery_attempts = 0
    /\ location_agreed = FALSE
    /\ frame = NoFrame
    /\ total_stats = NoStats
    /\ trace = <<>>

NextCrawl ==
    \/ Start
    \/ AccessWebsite
    \/ GetAllRegions
    \/ GetDistricts
    \/ GetDongs
    \/ SelectDong
    \/ ExtractData
    \/ ReopenAreaSelection
    \/ HandleException
    \/ ReturnStats

SpecCrawl == InitCrawl /\ [][NextCrawl]_vars

(***************************************************************************)
(* Claims about the traversals (under SpecCrawl)                           *)
(***************************************************************************)

IsSelect(e) == e.op = "select_dong_and_search"

\* The leaves select_dong_and_search was called for, in order.
Selected == [i \in 1..Len(SelectSeq(trace, IsSelect)) |->
                 SelectSeq(trace, IsSelect)[i].arg]

RunDone == frame.at = "done"

\* The leaves of a site in the order the session lists them.
RECURSIVE LeavesOfProvince(_, _, _)
LeavesOfProvince(s, p, j) ==
    IF j > Len(s[p]) THEN <<>>
    ELSE [k \in 1..s[p][j] |-> <<p, j, k - 1>>] \o LeavesOfProvince(s, p, j + 1)

RECURSIVE LeavesFrom(_, _)
LeavesFrom(s, i) ==
    IF i > Len(s) THEN <<>>
    ELSE LeavesOfProvince(s, i, 1) \o LeavesFrom(s, i + 1)

\* No call failed, none was repeated.
NoFailure == \A i \in 1..Len(trace) : trace[i].ok /\ trace[i].calls = 1

SearchesRun ==
    Cardinality({i \in 1..Len(trace) :
                    trace[i].op = "execute_search_from_popup"})

\* C6: if the crawler was constructed with enable_recovery=False, then in
\* crawl_all_regions and crawl_single_region every session operation is
\* invoked at most once per call of its wrapper method and quick_recovery
\* is never invoked.
C6_DisabledMeansNoRecovery ==
    ~enable_recovery /\ request.entry \in {"crawl_all_regions", "crawl_single_region"}
        => /\ recovery_attempts = 0
           /\ \A i \in 1..Len(trace) :
                  trace[i].calls <= 1 /\ trace[i].recoveries = 0

ConsecutiveSelects(i, j) ==
    /\ i < j
    /\ IsSelect(trace[i]) /\ IsSelect(trace[j])
    /\ \A m \in (i + 1)..(j - 1) : ~IsSelect(trace[m])

SameDistrict(a, b) == a.arg[1] = b.arg[1] /\ a.arg[2] = b.arg[2]

\* Between positions i and j the popup was reopened (position r), then the
\* province of leaf j chosen again and, if the two leaves are siblings,
\* the district too.
ReopenedAndReselected(i, r, j) ==
    /\ i < r /\ r < j
    /\ trace[r].op = "reopen_area_selection"
    /\ \E q \in (r + 1)..(j - 1) :
          /\ trace[q].op = "get_districts_for_province"
          /\ trace[q].arg = <<trace[j].arg[1]>>
          /\ SameDistrict(trace[i], trace[j]) =>
                 \E q2 \in (q + 1)..(j - 1) :
                     /\ trace[q2].op = "get_dongs_for_district"
                     /\ trace[q2].arg = <<trace[j].arg[1], trace[j].arg[2]>>

\* C8 as stated: between any two consecutive dong searches the engine
\* calls reopen_area_selection and re-selects the province (and the
\* district, for sibling dongs) before the next select_dong_and_search, and
\* the reopen step runs through execute_with_recovery.
C8_Original ==
    \A i, j \in 1..Len(trace) :
        ConsecutiveSelects(i, j) =>
            \E r \in 1..Len(trace) :
                /\ ReopenedAndReselected(i, r, j)
                /\ trace[r].via = "execute_with_recovery"

\* C8 amended: the same reopening and re-selection; the reopen step runs
\* through execute_with_recovery if recovery is enabled for the traversal
\* and through execute_simple, invoked once, if it is not.
C8_ReopenBetweenSearches ==
    \A i, j \in 1..Len(trace) :
        ConsecutiveSelects(i, j) =>
            \E r \in 1..Len(trace) :
                /\ ReopenedAndReselected(i, r, j)
                /\ trace[r].via = IF recovery_enabled
                                  THEN "execute_with_recovery"
                                  ELSE "execute_simple"
                /\ ~recovery_enabled =>
                       trace[r].calls = 1 /\ trace[r].recoveries = 0

\* C8 witness: with recovery disabled, two sibling dongs were searched one
\* after the other, and two dongs of different districts.
C8_Witness ==
    /\ ~recovery_enabled
    /\ \E i, j \in 1..Len(trace) :
           ConsecutiveSelects(i, j) /\ SameDistrict(trace[i], trace[j])
    /\ \E i, j \in 1..Len(trace) :
           ConsecutiveSelects(i, j) /\ ~SameDistrict(trace[i], trace[j])

\* C9: with a district and a dong filter at most one leaf is searched, and
\* nothing is reopened after it; with only a district filter all searched
\* leaves are dongs of one district, the first of its province's list that
\* the filter admits.
C9_TargetEndsTheRun ==
    /\ request.district_name # "" /\ request.dong_name # ""
           => /\ Len(Selected) <= 1
              /\ \A i, r \in 1..Len(trace) :
                     IsSelect(trace[i]) /\ i < r
                         => trace[r].op # "reopen_area_selection"
    /\ request.district_name # "" /\ request.dong_name = ""
           => \A i \in 1..Len(Selected) :
                  /\ Selected[i][1] = Selected[1][1]
                  /\ Selected[i][2] = Selected[1][2]
                  /\ In(request.district_name, DistrictName(Selected[i][2]))
                  /\ \A j \in 1..(Selected[i][2] - 1) :
                         ~In(request.district_name, DistrictName(j))

\* C9 witness: a finished run with only a district filter that searched
\* both dongs of the first admitted district, a later district that the
\* filter admits too having a dong; and no failure.
C9_Witness ==
    /\ RunDone /\ NoFailure
    /\ request.district_name = "Gang" /\ request.dong_name = ""
    /\ Len(Selected) = 2
    /\ Len(site[1]) = 2 /\ site[1][2] > 0

\* A call that failed with a session-fatal error after the executor had
\* used all its attempts.
ExhaustedFatal(e) ==
    /\ ~e.ok
    /\ e.calls = max_recovery_attempts
    /\ HasMarker(e.err)

TraversalOps ==
    { "get_all_regions_from_site", "get_districts_for_province",
      "get_dongs_for_district", "select_dong_and_search", "extract_data",
      "reopen_area_selection" }

LeafListed(leaf) ==
    /\ \E i \in 1..Len(trace) :
           /\ trace[i].op = "get_districts_for_province"
           /\ trace[i].at = "districts"
           /\ trace[i].arg = <<leaf[1]>> /\ trace[i].ok
    /\ \E i \in 1..Len(trace) :
           /\ trace[i].op = "get_dongs_for_district"
           /\ trace[i].at = "dongs"
           /\ trace[i].arg = <<leaf[1], leaf[2]>> /\ trace[i].ok

\* The leaves of the scope of a run without district and dong filter.
ScopeLeaves ==
    IF request.province_name = "" THEN LeavesFrom(site, 1)
    ELSE LET p == FirstFrom(ProvinceList(site), request.province_name, 1)
         IN  IF p = 0 THEN <<>> ELSE LeavesOfProvince(site, p, 1)

RECURSIVE LStrip(_)
LStrip(s) ==
    IF Len(s) > 0 /\ SubSeq(s, 1, 1) = " "
    THEN LStrip(SubSeq(s, 2, Len(s)))
    ELSE s

RECURSIVE RStrip(_)
RStrip(s) ==
    IF Len(s) > 0 /\ SubSeq(s, Len(s), Len(s)) = " "
    THEN RStrip(SubSeq(s, 1, Len(s) - 1))
    ELSE s

Strip(s) == LStrip(RStrip(s))

\* The first blank of s, or Len(s) + 1 when it has none.
RECURSIVE FirstBlank(_, _)
FirstBlank(s, i) ==
    IF i > Len(s) \/ SubSeq(s, i, i) = " " THEN i ELSE FirstBlank(s, i + 1)

\* str.split(): the words of s, separated by runs of blanks.
RECURSIVE Split(_)
Split(s) ==
    LET t == LStrip(s)
        k == FirstBlank(t, 1)
    IN  IF Len(t) = 0 THEN <<>>
        ELSE <<SubSeq(t, 1, k - 1)>> \o Split(SubSeq(t, k, Len(t)))

\* ' '.join(words)
RECURSIVE Join(_)
Join(words) ==
    IF Len(words) = 0 THEN ""
    ELSE IF Len(words) = 1 THEN words[1]
    ELSE words[1] \o " " \o Join(Tail(words))

\* A value that is None in the code.
None == <<>>

\* AddressParser.PROVINCE_MAPPING, three of its seventeen rows.
PROVINCE_MAPPING ==
    { <<"Seoul", "Seoul-teukbyeolsi">>,
      <<"Busan", "Busan-gwangyeoksi">>,
      <<"Jeju", "Jeju-teukbyeoljachido">> }

\* The first value that is not None, as the loops "for part in parts:
\* if ...: return ..." of the parser find it.
FirstPart(picked) ==
    LET hits == { i \in 1..Len(picked) : picked[i] # None }
    IN  IF hits = {} THEN None
        ELSE picked[CHOOSE i \in hits : \A j \in hits : i <= j]

\* AddressParser._extract_province: a word that holds a key of the table.
ProvinceOfPart(part) ==
    IF \E row \in PROVINCE_MAPPING : Contains(part, row[1])
    THEN <<(CHOOSE row \in PROVINCE_MAPPING : Contains(part, row[1]))[2]>>
    ELSE None

\* AddressParser._extract_city: a word with a city suffix and without a
\* province suffix. A word that holds "-gu" and ends in "cheong" or "yeok"
\* loses these and ends in "-gu" (the code means the word of a
\* province (that a word like "Gangnam-gucheong", the district office, or
\* "Gangnam-guyeok", the station, stands for its district).
CityOfPart(part) ==
    IF /\ \E suffix \in {"-gu", "-si", "-gun"} : Contains(part, suffix)
       /\ ~ \E suffix \in {"-teukbyeolsi", "-gwangyeoksi", "-do"} :
                Contains(part, suffix)
    THEN IF /\ Contains(part, "-gu")
            /\ ~EndsWith(part, "-gu")
            /\ EndsWith(part, "cheong") \/ EndsWith(part, "yeok")
         THEN LET city == RemoveAll(RemoveAll(part, "cheong"), "yeok")
              IN  IF EndsWith(city, "-gu") THEN <<city>>
                  ELSE <<city \o "-gu">>
         ELSE <<part>>
    ELSE None

\* AddressParser._extract_town: a word with a town suffix.
TownOfPart(part) ==
    IF \E suffix \in {"-dong", "-myeon", "-eup", "-ri"} :
           Contains(part, suffix)
    THEN <<part>>
    ELSE None

\* AddressParser._extract_province: the first word that names a province,
\* and Seoul for an address that names none but holds "Gangnam-gu".
ExtractProvince(parts) ==
    LET found == FirstPart([i \in 1..Len(parts) |->
                               ProvinceOfPart(parts[i])])
    IN  IF found # None THEN found
        ELSE IF Contains(Join(parts), "Gangnam-gu")
             THEN <<"Seoul-teukbyeolsi">>
             ELSE None

\* AddressParser._extract_city: the first word that names a city, and
\* "Gangnam-gu" when no word does but the address holds it.
ExtractCity(parts) ==
    LET found == FirstPart([i \in 1..Len(parts) |-> CityOfPart(parts[i])])
    IN  IF found # None THEN found
        ELSE IF Contains(Join(parts), "Gangnam-gu")
             THEN <<"Gangnam-gu">>
             ELSE None

\* AddressParser._extract_town
ExtractTown(parts) ==
    FirstPart([i \in 1..Len(parts) |-> TownOfPart(parts[i])])

\* AddressParser._extract_detail, "any(excluded_item in part ...)": a word
\* is left out when it holds the province, the city or the town that was
\* found.
Excluded(part, parsed) ==
    \E key \in {"province", "city", "town"} :
        parsed[key] # None /\ Contains(part, parsed[key][1])

\* AddressParser._extract_detail: the words that are not left out, joined
\* by blanks, and None when there are none.
RECURSIVE DetailParts(_, _)
DetailParts(parts, parsed) ==
    IF parts = <<>> THEN <<>>
    ELSE (IF Excluded(Head(parts), parsed) THEN <<>> ELSE <<Head(parts)>>)
             \o DetailParts(Tail(parts), parsed)

\* A detail that is never extracted.
ExtractDetail_never(parts, parsed) == None

ExtractDetail(parts, parsed) ==
    IF DetailParts(parts, parsed) = <<>> THEN None
    ELSE <<Join(DetailParts(parts, parsed))>>

\* AddressParser.parse_address
parse_address(address) ==
    LET parts == Split(Strip(CommasToBlanks(address)))
        found == [province |-> ExtractProvince(parts),
                  city |-> ExtractCity(parts),
                  town |-> ExtractTown(parts)]
    IN  [province |-> found.province,
         city |-> found.city,
         town |-> found.town,
         detail |-> ExtractDetail(parts, found)]

\* Crawler.extract_region_from_address: None without a province or a city.
extract_region_from_address(address) ==
    LET parsed == parse_address(address)
    IN  IF parsed.province = None \/ parsed.city = None THEN None
        ELSE <<parsed.province[1], parsed.city[1], parsed.town>>

\* str.upper() on one character (the ASCII letters; others are unchanged).
UpperChar(c) ==
    CASE c = "a" -> "A" [] c = "b" -> "B" [] c = "c" -> "C" [] c = "d" -> "D"
      [] c = "e" -> "E" [] c = "f" -> "F" [] c = "g" -> "G" [] c = "h" -> "H"
      [] c = "i" -> "I" [] c = "j" -> "J" [] c = "k" -> "K" [] c = "l" -> "L"
      [] c = "m" -> "M" [] c = "n" -> "N" [] c = "o" -> "O" [] c = "p" -> "P"
      [] c = "q" -> "Q" [] c = "r" -> "R" [] c = "s" -> "S" [] c = "t" -> "T"
      [] c = "u" -> "U" [] c = "v" -> "V" [] c = "w" -> "W" [] c = "x" -> "X"
      [] c = "y" -> "Y" [] c = "z" -> "Z" [] OTHER -> c

RECURSIVE Upper(_)
Upper(s) ==
    IF Len(s) = 0 THEN ""
    ELSE UpperChar(SubSeq(s, 1, 1)) \o Upper(SubSeq(s, 2, Len(s)))

\* The ids of the Region rows with exactly this triple.
RegionsWith(d, province, city, town) ==
    { i \in 1..Len(d.regions) :
        /\ d.regions[i].province = province
        /\ d.regions[i].city = city
        /\ d.regions[i].town = town }

get_or_create_region_always_new(d, province, city, town) ==
    [db |-> [d EXCEPT !.regions =
                Append(@, [province |-> province, city |-> city,
                           town |-> town, code |-> Len(d.regions) + 1])],
     id |-> Len(d.regions) + 1]

\* Database.get_or_create_region: the row with exactly this triple, or a
\* new row with a code of its own.  A row's id is its place in the table.
get_or_create_region(d, province, city, town) ==
    LET found == RegionsWith(d, province, city, town)
        id == Len(d.regions) + 1
    IN  IF found # {}
        THEN [db |-> d,
              id |-> CHOOSE i \in found : \A j \in found : i <= j]
        ELSE [db |-> [d EXCEPT !.regions =
                         Append(@, [province |-> province, city |-> city,
                                    town |-> town, code |-> id])],
              id |-> id]

store_exists_never(d, name, address, region_id) == FALSE

\* Database.store_exists: a Store row with exactly these three values.
store_exists(d, name, address, region_id) ==
    \E i \in 1..Len(d.stores) :
        /\ d.stores[i].name = name
        /\ d.stores[i].address = address
        /\ d.stores[i].region_id = region_id

\* Database.create_category: the row of this name, or a new one.  The
\* insert fails when another row already has the code (Category.code is
\* unique).
create_category(d, code, name) ==
    IF \E i \in 1..Len(d.categories) : d.categories[i].name = name
    THEN [db |-> d, raised |-> FALSE]
    ELSE IF \E i \in 1..Len(d.categories) : d.categories[i].code = code
    THEN [db |-> d, raised |-> TRUE]
    ELSE [db |-> [d EXCEPT !.categories =
                     Append(@, [code |-> code, name |-> name])],
          raised |-> FALSE]

\* Database.create_store: one more Store row, whatever the table holds.
create_store(d, name, category_str, region_id, address, latitude, longitude) ==
    [d EXCEPT !.stores =
        Append(@, [name |-> name, category_str |-> category_str,
                   region_id |-> region_id, address |-> address,
                   latitude |-> latitude, longitude |-> longitude])]

\* The most listings one run submits to the save path.
MaxListings == 2

\* A raw listing as the extraction scripts return it.
Listing(name, address, category) ==
    [name |-> name, address |-> address, category |-> category]

\* Two spellings of one listing, a store of the same name in another
\* region, a listing without a name and one whose address names no province.
Listings ==
    { Listing("Cafe", "Seoul Gangnam-gu Irwon-dong 1", "food"),
      Listing(" Cafe", "Seoul Gangnam-gu Irwon-dong 1 ", "food"),
      Listing("Cafe", "Busan Haeundae-gu U-dong 1", "food"),
      Listing("  ", "Seoul Gangnam-gu Irwon-dong 1", "food"),
      Listing("Cafe", " ", "food"),
      Listing("Kiosk", "Irwon-dong 3", "food") }

\* What IntegratedMapAPI.search_location returns: nothing found, or the
\* coordinates with the name and the address the provider gave.
NotFound ==
    [found |-> FALSE, api_used |-> "none", latitude |-> None,
     longitude |-> None, api_store_name |-> "", api_store_addr |-> ""]

Found(api_used, name, address) ==
    [found |-> TRUE, api_used |-> api_used, latitude |-> <<37>>,
     longitude |-> <<127>>, api_store_name |-> name,
     api_store_addr |-> address]

\* The answers the geocoder may give for one listing: the two providers may
\* spell the address of a place differently.
SearchResults(name, address) ==
    { NotFound, Found("naver", name, address),
      Found("kakao", name, "Gwangpyeong-ro 1") }

\* The database call of one listing that raises, if any.
DbFaults == {"none", "region", "category", "store"}

Count(stats, key) == [stats EXCEPT ![key] = @ + 1]

\* One FailedLookup entry.
FailedLookup(name, address, category) ==
    [store_name |-> name, address |-> address, category |-> category]

Outcome(d, failed, stats, what) ==
    [db |-> d, failed_stores |-> failed, stats |-> stats, outcome |-> what,
     searched |-> TRUE]

\* An outcome reached before the call of search_location.
BeforeSearch(o) == [o EXCEPT !.searched = FALSE]

\* An "except" that logs the error and does not count it.
CountError_uncounted(d, failed, stats) ==
    Outcome(d, failed, stats, "error")

\* "except Exception" of the loop: the error is logged and counted, and
\* the loop goes on with the next listing.
CountError(d, failed, stats) ==
    Outcome(d, failed, Count(stats, "errors"), "error")

\* A check of the address alone.
MissingRequired_address_only(original_name, address) == address = ""

\* "if not original_name or not address"
MissingRequired(original_name, address) ==
    original_name = "" \/ address = ""

\* (variant: only the first provider has a counter)
CountProvider_naver_only(stats, api_used) ==
    IF api_used = "naver" THEN Count(stats, "naver_success") ELSE stats

\* The provider counters, which are counted before the duplicate check.
CountProvider(stats, api_used) ==
    IF api_used = "naver" THEN Count(stats, "naver_success")
    ELSE IF api_used = "kakao" THEN Count(stats, "kakao_success")
    ELSE stats

RecordFailure_and_store(d, failed, stats, region_id, name, address, category) ==
    Outcome(create_store(d, name, category, region_id, address, None, None),
            Append(failed, FailedLookup(name, address, category)),
            Count(stats, "api_failed"), "api_failed")

\* A listing the geocoder has not found goes to self.failed_stores and is
\* counted as api_failed; nothing is written to the Store table.
RecordFailure(d, failed, stats, region_id, name, address, category) ==
    Outcome(d, Append(failed, FailedLookup(name, address, category)),
            Count(stats, "api_failed"), "api_failed")

SkipDuplicate_as_error(d, failed, stats) ==
    Outcome(d, failed, Count(stats, "errors"), "error")

\* A listing whose store is in the database already is counted as a
\* duplicate and as skipped.
SkipDuplicate(d, failed, stats) ==
    Outcome(d, failed, Count(Count(stats, "duplicates"), "skipped"),
            "duplicate")

\* The stripped fields of a listing and the region its address parses to.
Fields(listing) ==
    [name |-> Strip(listing.name),
     address |-> Strip(listing.address),
     category |-> Strip(listing.category),
     parsed_address |-> extract_region_from_address(Strip(listing.address))]

\* The body of the loop of save_store_data for one listing: d, failed and
\* stats are the database, self.failed_stores and the local stats before
\* it, fields are the Fields of the listing, result is what search_location
\* returns if it is called, and fault names the database call that raises.
SaveOne(d, failed, stats, fields, result, fault) ==
    LET original_name == fields.name
        address == fields.address
        category_name == fields.category
        parsed_address == fields.parsed_address
        region == get_or_create_region(d, parsed_address[1],
                                       parsed_address[2], parsed_address[3])
        counted == CountProvider(stats, result.api_used)
        category == create_category(region.db, Upper(category_name),
                                    category_name)
        error(d2, s2) == CountError(d2, failed, s2)
    IN  IF MissingRequired(original_name, address)
        THEN BeforeSearch(
                 Outcome(d, failed, Count(stats, "skipped"), "skipped"))
        ELSE IF parsed_address = None
        THEN BeforeSearch(
                 Outcome(d, failed, Count(stats, "skipped"), "skipped"))
        ELSE IF fault = "region"
        THEN BeforeSearch(error(d, stats))
        ELSE IF ~ result.found
        THEN RecordFailure(region.db, failed, stats, region.id,
                           original_name, address, category_name)
        ELSE IF fault = "exists"
        THEN error(region.db, counted)
        ELSE IF store_exists(region.db, result.api_store_name,
                             result.api_store_addr, region.id)
        THEN SkipDuplicate(region.db, failed, counted)
        ELSE IF fault = "category" \/ category.raised
        THEN error(region.db, counted)
        ELSE IF fault = "store"
        THEN error(category.db, counted)
        ELSE Outcome(create_store(category.db, result.api_store_name,
                                  category_name, region.id,
                                  result.api_store_addr, result.latitude,
                                  result.longitude),
                     failed, Count(counted, "saved"), "saved")

\* dict.update: the keys of stats replace those of the dictionary.
Update(dict, stats) ==
    [key \in DOMAIN dict |->
        IF key \in DOMAIN stats THEN stats[key] ELSE dict[key]]

RECURSIVE SumSeq(_)
SumSeq(q) == IF Len(q) = 0 THEN 0 ELSE q[1] + SumSeq(Tail(q))

\* The sizes of the batches a traversal submits, leaf after leaf.
Plans ==
    { plan \in UNION { [1..k -> 1..MaxListings] : k \in 1..MaxListings } :
        SumSeq(plan) <= MaxListings }

\* A new engine on an empty database and a traversal that is about to
\* save the listings of its leaves; the database fails at most once.
InitSave ==
    /\ ExecIdle
    /\ CrawlIdle
    /\ UnitIdle
    /\ geo = NoGeo
    /\ report = NoReport
    /\ writers = NoWriters
    /\ db = EmptyDb
    /\ failed_stores = <<>>
    /\ csv_file = {}
    /\ crawling_stats = NoCrawlingStats
    /\ sv = NoSave
    /\ \E plan \in Plans, fault_left \in BOOLEAN :
           run = [NoRun EXCEPT !.at = "running", !.plan = plan, !.b = 1,
                               !.fault_left = fault_left]

\* save_store_data(batch) is called: its local stats start from zero.
SaveBegin ==
    /\ run.at = "running"
    /\ sv.at = "idle"
    /\ sv' = [at |-> "loop", n |-> run.plan[run.b], i |-> 0,
              stats |-> NoSaveStats]
    /\ UNCHANGED <<db, failed_stores, csv_file, crawling_stats, run>>
    /\ UNCHANGED outsideSave

\* One turn of the loop over the batch.
SaveListing ==
    /\ sv.at = "loop"
    /\ sv.i < sv.n
    /\ \E listing \in Listings :
       LET fields == Fields(listing)
       IN
       \E fault \in DbFaults,
          result \in SearchResults(fields.name, fields.address) :
           LET o == SaveOne(db, failed_stores, sv.stats, fields, result,
                            fault)
           IN  /\ fault # "none" => run.fault_left
               /\ fault # "none" => o.outcome = "error"
               /\ ~o.searched => result = NotFound
               /\ db' = o.db
               /\ failed_stores' = o.failed_stores
               /\ sv' = [sv EXCEPT !.i = @ + 1, !.stats = o.stats]
               /\ run' = [run EXCEPT
                             !.fault_left = @ /\ fault = "none",
                             !.log = Append(@, [listing |-> listing,
                                                result |-> result,
                                                fault |-> fault,
                                                outcome |-> o.outcome,
                                                searched |-> o.searched,
                                                batch |-> run.b])]
    /\ UNCHANGED <<csv_file, crawling_stats>>
    /\ UNCHANGED outsideSave

\* The keys by which CSVHandler.save_failed_stores tells rows apart.
CsvKeys(failed) ==
    { [store_name |-> failed[i].store_name, address |-> failed[i].address] :
        i \in 1..Len(failed) }

\* After the loop: the failed-store export, which re-raises what goes wrong
\* in it, then crawling_stats.update(stats) and the return of stats.
SaveReturn ==
    /\ sv.at = "loop"
    /\ sv.i = sv.n
    /\ \E export \in {"ok", "raises"} :
           /\ export = "raises" => failed_stores # <<>>
           /\ IF export = "raises"
              THEN /\ sv' = [sv EXCEPT !.at = "raised"]
                   /\ UNCHANGED <<csv_file, crawling_stats>>
              ELSE /\ sv' = [sv EXCEPT !.at = "returned"]
                   /\ csv_file' = csv_file \cup CsvKeys(failed_stores)
                   /\ crawling_stats' = Update(crawling_stats, sv.stats)
    /\ UNCHANGED <<db, failed_stores, run>>
    /\ UNCHANGED outsideSave

\* The traversal adds the returned stats to its total_stats and goes on to
\* the next leaf, or returns after the last one.
NextLeaf ==
    /\ sv.at = "returned"
    /\ sv' = NoSave
    /\ run' = [run EXCEPT
                  !.total =
                      [regions_crawled |-> @.regions_crawled + 1,
                       total_stores |-> @.total_stores + sv.n,
                       total_saved |-> @.total_saved + sv.stats.saved,
                       api_success |-> @.api_success
                                          + sv.stats.naver_success
                                          + sv.stats.kakao_success,
                       api_failed |-> @.api_failed + sv.stats.api_failed],
                  !.returned = Append(@, sv.stats),
                  !.b = @ + 1,
                  !.at = IF run.b = Len(run.plan) THEN "done" ELSE "running"]
    /\ UNCHANGED <<db, failed_stores, csv_file, crawling_stats>>
    /\ UNCHANGED outsideSave

\* What save_store_data raises leaves the loops of the traversal and is
\* caught by the except clause around them, which returns total_stats.
AbortTraversal ==
    /\ sv.at = "raised"
    /\ sv' = NoSave
    /\ run' = [run EXCEPT !.at = "aborted"]
    /\ UNCHANGED <<db, failed_stores, csv_file, crawling_stats>>
    /\ UNCHANGED outsideSave

NextSave ==
    \/ SaveBegin
    \/ SaveListing
    \/ SaveReturn
    \/ NextLeaf
    \/ AbortTraversal

SpecSave == InitSave /\ [][NextSave]_vars

(***************************************************************************)
(* Claims about the save path (under SpecSave)                             *)
(***************************************************************************)

\* The traversal has returned its total_stats.
TraversalOver == run.at \in {"done", "aborted"}

\* C11: nothing that goes wrong while listings are saved (a listing that is
\* invalid, not found by the geocoder or a duplicate, a database write that
\* raises, a failed-store export that fails) aborts the traversal: when the
\* traversal returns, the listings of every one of its leaves have been
\* through save_store_data.
C11_SaveFailuresNeverAbort ==
    TraversalOver => Len(run.returned) = Len(run.plan)

\* The triple by which the save path tells Store rows apart.
StoreKey(row) == <<row.name, row.address, row.region_id>>

\* C13: whatever batches one engine has saved one after another, no two
\* Store rows have the same name, address and region_id.
C13_NoTwoStoresShareATriple ==
    \A i, j \in 1..Len(db.stores) :
        StoreKey(db.stores[i]) = StoreKey(db.stores[j]) => i = j

\* A listing saved in one batch has come again in a later batch, with the
\* same answer of the geocoder, and was turned away as a duplicate.
C13_Witness ==
    \E k, l \in 1..Len(run.log) :
        /\ k < l
        /\ run.log[k].batch < run.log[l].batch
        /\ run.log[k].listing = run.log[l].listing
        /\ run.log[k].result = run.log[l].result
        /\ run.log[k].outcome = "saved"
        /\ run.log[l].outcome = "duplicate"
        /\ Len(db.stores) = 1

\* What the calls of save_store_data have counted under a key, over the
\* batches of the run: the returned stats and those of the running call.
RECURSIVE SumKey(_, _)
SumKey(returned, key) ==
    IF Len(returned) = 0 THEN 0
    ELSE returned[1][key] + SumKey(Tail(returned), key)

Counted(key) ==
    SumKey(run.returned, key) + (IF sv.at = "idle" THEN 0 ELSE sv.stats[key])

\* The run has submitted two listings and no more: the same listing twice
\* (the same name, address and category once stripped), the geocoder has
\* found both and given the same answer, and no database call has raised.
TwoIdenticalListings ==
    /\ Len(run.log) = 2
    /\ Fields(run.log[1].listing) = Fields(run.log[2].listing)
    /\ run.log[1].result = run.log[2].result
    /\ run.log[1].result.found
    /\ \A k \in 1..2 : run.log[k].fault = "none"

RegionTriples ==
    ({ Fields(listing).parsed_address : listing \in Listings } \ {None})
        \cup { <<"Seoul-teukbyeolsi", "Gangnam-gu", None>> }

\* The listings for which save_store_data has called get_or_create_region.
RegionCalls ==
    { k \in 1..Len(run.log) :
        run.log[k].outcome # "skipped" /\ run.log[k].fault # "region" }

\* C15: get_or_create_region is idempotent.  In every state the save path
\* reaches, a call followed by a second call with the same province, city
\* and town returns the same id twice and the second call inserts no row;
\* and no two Region rows have the same province, city and town.
C15_GetOrCreateRegionIdempotent ==
    /\ \A t \in RegionTriples :
           LET first == get_or_create_region(db, t[1], t[2], t[3])
               second == get_or_create_region(first.db, t[1], t[2], t[3])
           IN  /\ second.id = first.id
               /\ second.db = first.db
               /\ first.db.regions[first.id].province = t[1]
               /\ first.db.regions[first.id].city = t[2]
               /\ first.db.regions[first.id].town = t[3]
    /\ \A i, j \in 1..Len(db.regions) :
           /\ db.regions[i].province = db.regions[j].province
           /\ db.regions[i].city = db.regions[j].city
           /\ db.regions[i].town = db.regions[j].town
           => i = j

\* The save path has asked twice for the region of one address: there is
\* one Region row.
C15_Witness ==
    /\ Len(db.regions) = 1
    /\ \E k, l \in RegionCalls :
           /\ k # l
           /\ Fields(run.log[k].listing).parsed_address
                  = Fields(run.log[l].listing).parsed_address

\* search_location was called for this listing and returned found = False.
NotFoundCall(e) ==
    ~e.result.found /\ e.outcome # "skipped" /\ e.fault = "none"

\* The step has taken one more listing through the loop.
ListingSaved == Len(run'.log) = Len(run.log) + 1

\* C16: a listing for which search_location returns found = False adds
\* exactly one FailedLookup entry to failed_stores and one to api_failed
\* and no Store row; and every Store row has a latitude and a longitude.
C16_NotFoundIsRecordedNotStored ==
    /\ [][ListingSaved /\ NotFoundCall(run'.log[Len(run'.log)]) =>
             LET fields == Fields(run'.log[Len(run'.log)].listing)
             IN  /\ failed_stores' =
                        Append(failed_stores,
                               FailedLookup(fields.name, fields.address,
                                            fields.category))
                 /\ sv'.stats.api_failed = sv.stats.api_failed + 1
                 /\ sv'.stats.saved = sv.stats.saved
                 /\ db'.stores = db.stores]_vars
    /\ [](\A i \in 1..Len(db.stores) :
             db.stores[i].latitude # None /\ db.stores[i].longitude # None)

\* One listing was not found and another was found and stored.
C16_Witness ==
    /\ \E k \in 1..Len(run.log) : NotFoundCall(run.log[k])
    /\ Len(failed_stores) = 1
    /\ Len(db.stores) = 1
    /\ sv.stats.api_failed + SumKey(run.returned, "api_failed") = 1

(***************************************************************************)
(* Part 6: main.run_crawler, one run of the program                        *)
(***************************************************************************)

\* The entry points run_crawler and run_crawler_with_recovery_control call.
RunRequests ==
    { r \in Requests : r.entry \in {"crawl_all_regions", "crawl_single_region"} }

\* run_crawler's "minimal success criterion", its return value after the
\* traversal returned.
MinimalSuccess_always(stats) == TRUE

MinimalSuccess(stats) ==
    stats.regions_crawled > 0 \/ stats.total_stores > 0

\* run_crawler is called: nothing is set up yet.
InitRun ==
    /\ ExecIdle
    /\ SaveIdle
    /\ enable_recovery \in BOOLEAN
    /\ recovery_enabled = enable_recovery
    /\ \/ site \in Sites /\ request \in RunRequests /\ faults = 0
       \/ site = FaultSite /\ request \in RunRequests /\ faults = MaxFaults
    /\ recovery_attempts = 0
    /\ location_agreed = FALSE
    /\ frame = [NoFrame EXCEPT !.at = "new"]
    /\ total_stats = NoStats
    /\ trace = <<>>

\* Crawler(enable_recovery) and crawler.setup_driver(): what they raise is
\* caught by run_crawler's except clause, which returns False.
SetupDriver ==
    /\ frame.at = "new"
    /\ report.at = "none"
    /\ \E setup \in {"ok", "raises"} :
           IF setup = "ok"
           THEN /\ frame' = NoFrame
                /\ report' = [report EXCEPT !.at = "running"]
           ELSE /\ frame' = [NoFrame EXCEPT !.at = "failed"]
                /\ report' = [report EXCEPT !.at = "exit"]
    /\ UNCHANGED <<site, enable_recovery, request, recovery_enabled,
                   recovery_attempts, location_agreed, total_stats, trace,
                   faults>>
    /\ UNCHANGED outsideRun

\* The entry point has returned its stats: run_crawler logs them, writes
\* the summary file if a region was crawled (what save_summary raises is
\* caught by the except clause) and returns.
Report ==
    /\ frame.at = "done"
    /\ report.at = "running"
    /\ \E summary \in {"ok", "raises"} :
           /\ summary = "raises" => total_stats.regions_crawled > 0
           /\ report' =
                  [at |-> "exit",
                   stats_logged |-> TRUE,
                   summary_saved |-> /\ total_stats.regions_crawled > 0
                                     /\ summary = "ok",
                   success |-> /\ summary = "ok"
                               /\ MinimalSuccess(total_stats)]
    /\ UNCHANGED crawlVars
    /\ UNCHANGED outsideRun

NextRun ==
    \/ SetupDriver
    \/ NextCrawl
    \/ Report

\* A traversal is between its first step and its return.
Traversing == frame.at \notin {"new", "idle", "failed", "done"}

\* A traversal that has started goes on until it returns: NextCrawl can
\* take a step in every state in which Traversing holds, so this is
\* WF_vars(NextCrawl) with Traversing in the place of ENABLED.
TraversalProgress == []<>(~Traversing) \/ []<><<NextCrawl>>_vars

\* The program is one thread that runs until run_crawler returns.
SpecRun ==
    /\ InitRun
    /\ [][NextRun]_vars
    /\ WF_vars(SetupDriver)
    /\ WF_vars(Start)
    /\ TraversalProgress
    /\ WF_vars(Report)

(***************************************************************************)
(* Claims about a run of the program (under SpecRun)                       *)
(***************************************************************************)

\* run_crawler has returned.
RunOver == report.at = "exit"

\* The traversal returned no region and no store.
NothingCrawled ==
    total_stats.regions_crawled = 0 /\ total_stats.total_stores = 0

\* C12 as stated, for the runs that have ended: the run has produced its
\* statistics, and if it ended with zero regions crawled and zero stores
\* found it is reported as a completed run, not as an error.
C12_Original ==
    RunOver =>
        /\ report.stats_logged
        /\ NothingCrawled => report.success

\* C12: every run ends; it has logged its statistics exactly if the
\* crawler was set up and the entry point returned, whatever failed during
\* the traversal; the summary file is written only if a region was crawled;
\* and a run that ends with zero regions crawled and zero stores found is
\* reported as failed.
C12_RunEndsWithStatistics ==
    /\ <>RunOver
    /\ [](RunOver => (report.stats_logged <=> frame.at = "done"))
    /\ [](RunOver /\ report.stats_logged =>
            /\ report.summary_saved => total_stats.regions_crawled > 0
            /\ report.success =>
                   report.summary_saved /\ total_stats.regions_crawled > 0
            /\ NothingCrawled => ~report.success)

C12_Witness ==
    /\ RunOver
    /\ report.stats_logged
    /\ NothingCrawled
    /\ ~report.success
    /\ \E i \in 1..Len(trace) : ~trace[i].ok

(***************************************************************************)
(* Part 7: several writers on one database                                 *)
(***************************************************************************)

\* The engines that save stores to the same database at the same time.
NumWriters == 2

Writers == 1..NumWriters

\* The writers stop taking new stores once the table has this many rows.
MaxRows == 2

\* The stores they save: a name, an address and a region id.
WriterKeys == { <<"Cafe", "Gwangpyeong-ro 1", 1>>, <<"Cafe", "Gwangpyeong-ro 1", 2>> }

\* Each writer is about to save one store; the table is empty.
InitWriters ==
    /\ ExecIdle
    /\ CrawlIdle
    /\ UnitIdle
    /\ geo = NoGeo
    /\ report = NoReport
    /\ failed_stores = <<>>
    /\ csv_file = {}
    /\ crawling_stats = NoCrawlingStats
    /\ sv = NoSave
    /\ run = NoRun
    /\ db = EmptyDb
    /\ \E key \in [Writers -> WriterKeys] :
           writers = [pc |-> [w \in Writers |-> "start"],
                      key |-> key,
                      seen |-> [w \in Writers |-> FALSE],
                      overlapped |-> FALSE]

\* Writer w has asked store_exists and has not yet acted on the answer.
Between(w) == writers.pc[w] = "checked"

\* store_exists in a transaction of its own: w learns whether the table
\* holds its store.  The check overlaps if another writer is between its
\* check and its insert for the same store.
WriterChecks(w) ==
    /\ writers.pc[w] = "start"
    /\ writers' =
           [writers EXCEPT
               !.pc[w] = "checked",
               !.seen[w] = store_exists(db, writers.key[w][1],
                                        writers.key[w][2], writers.key[w][3]),
               !.overlapped =
                   @ \/ \E v \in Writers \ {w} :
                            Between(v) /\ writers.key[v] = writers.key[w]]
    /\ UNCHANGED db
    /\ UNCHANGED outsideWriters

\* create_store in a second transaction, if store_exists said no: the
\* Store table has no constraint that would refuse the row.
WriterInserts(w) ==
    /\ writers.pc[w] = "checked"
    /\ db' = IF writers.seen[w] THEN db
             ELSE create_store(db, writers.key[w][1], "food",
                               writers.key[w][3], writers.key[w][2],
                               <<37>>, <<127>>)
    /\ writers' = [writers EXCEPT !.pc[w] = "done"]
    /\ UNCHANGED outsideWriters

\* A writer that is done takes the next store.
WriterAgain(w) ==
    /\ writers.pc[w] = "done"
    /\ Len(db.stores) < MaxRows
    /\ \E key \in WriterKeys :
           writers' = [writers EXCEPT !.pc[w] = "start", !.key[w] = key]
    /\ UNCHANGED db
    /\ UNCHANGED outsideWriters

NextWriters ==
    \E w \in Writers :
        \/ WriterChecks(w)
        \/ WriterInserts(w)
        \/ WriterAgain(w)

SpecWriters == InitWriters /\ [][NextWriters]_vars

\* Two Store rows have the same name, address and region_id.
TwoRowsForOneTriple ==
    \E i, j \in 1..Len(db.stores) :
        i # j /\ StoreKey(db.stores[i]) = StoreKey(db.stores[j])

\* C17: as long as no check-then-insert sequence for a triple has
\* overlapped another one for the same triple, no two Store rows share a
\* triple; once two sequences have overlapped, two rows for one triple can
\* be there (the witness).
C17_SerializedWritersNeverDuplicate ==
    ~writers.overlapped => ~TwoRowsForOneTriple

\* Two writers have checked before either inserted, and both have inserted.
C17_Witness ==
    /\ writers.overlapped
    /\ TwoRowsForOneTriple

(***************************************************************************)
(* Part 8: geocoding (IntegratedMapAPI.search_location)                    *)
(***************************************************************************)

\* re.sub(r'\s*word\.?$', '', s): the word (with its dot, if any) at the
\* end of s, and the blanks before it.
RemoveAtEnd(s, word) ==
    IF EndsWith(s, word \o ".")
    THEN RStrip(SubSeq(s, 1, Len(s) - Len(word) - 1))
    ELSE IF EndsWith(s, word)
         THEN RStrip(SubSeq(s, 1, Len(s) - Len(word)))
         ELSE s

\* IntegratedMapAPI.clean_store_name, with two of its eleven patterns:
\* the company mark "(ju)" anywhere and "inc" at the end.  The names of
\* the model hold no text of the other patterns.
clean_store_name(store_name) ==
    LET stripped == Strip(store_name)
        unmarked == RemoveAll(stripped, "(ju)")
        cut == RemoveAtEnd(unmarked, "inc")
    IN  Join(Split(cut))

IsDigit(c) == c \in {"0", "1", "2", "3", "4", "5", "6", "7", "8", "9"}

\* The length of the run of digits of s that starts at position i.
RECURSIVE DigitRun(_, _)
DigitRun(s, i) ==
    IF i <= Len(s) /\ IsDigit(SubSeq(s, i, i)) THEN 1 + DigitRun(s, i + 1)
    ELSE 0

\* re.match(r'^(\d+(-\d+)?)', part).group(1), or "" without a match.
LeadingNumber(part) ==
    LET a == DigitRun(part, 1)
        b == IF a > 0 /\ a < Len(part) /\ SubSeq(part, a + 1, a + 1) = "-"
             THEN DigitRun(part, a + 2)
             ELSE 0
    IN  IF b > 0 THEN SubSeq(part, 1, a + 1 + b) ELSE SubSeq(part, 1, a)

\* re.search(r'\d', part)
HasDigit(part) == \E i \in 1..Len(part) : IsDigit(SubSeq(part, i, i))

\* The loop of clean_address_for_search over the words of the address:
\* it keeps the words up to the first one that starts with a number, and
\* of that one only the number.
RECURSIVE CleanParts(_)
CleanParts(parts) ==
    IF Len(parts) = 0 THEN <<>>
    ELSE LET part == Head(parts)
         IN  IF TownOfPart(part) # None
             THEN <<part>> \o CleanParts(Tail(parts))
             ELSE IF LeadingNumber(part) = part /\ part # ""
             THEN <<part>>
             ELSE IF ~HasDigit(part)
             THEN <<part>> \o CleanParts(Tail(parts))
             ELSE IF LeadingNumber(part) # ""
             THEN <<LeadingNumber(part)>>
             ELSE CleanParts(Tail(parts))

\* BaseMapAPI.clean_address_for_search.  The addresses of the model hold
\* no brackets and none of the building words its patterns remove.
clean_address_for_search(address) == Join(CleanParts(Split(Strip(address))))

\* The loop "for i in range(len(address_parts) - 1, 0, -1)" of
\* create_search_scenarios_with_reduction, from i down to 1.
RECURSIVE ReducedScenarios(_, _, _)
ReducedScenarios(store_name, address_parts, i) ==
    IF i < 1 THEN <<>>
    ELSE <<store_name \o " " \o Join(SubSeq(address_parts, 1, i))>>
         \o ReducedScenarios(store_name, address_parts, i - 1)

\* The loop that strips each scenario and keeps the first of those that
\* are equal, dropping the empty ones.
RECURSIVE UniqueScenarios(_, _)
UniqueScenarios(scenarios, unique_scenarios) ==
    IF Len(scenarios) = 0 THEN unique_scenarios
    ELSE LET scenario == Strip(Head(scenarios))
             seen == { unique_scenarios[j] : j \in 1..Len(unique_scenarios) }
         IN  UniqueScenarios(
                 Tail(scenarios),
                 IF scenario # "" /\ scenario \notin seen
                 THEN Append(unique_scenarios, scenario)
                 ELSE unique_scenarios)

\* The scenarios in the opposite order: shortest first.
create_search_scenarios_growing(store_name, address) ==
    LET address_parts == Split(Strip(address))
    IN  UniqueScenarios(
            <<store_name>>
            \o [j \in 1..Len(address_parts) |->
                   store_name \o " " \o Join(SubSeq(address_parts, 1, j))],
            <<>>)

\* NaverSearchAPI.create_search_scenarios_with_reduction, and KakaoMapAPI's,
\* which is the same text.
create_search_scenarios_with_reduction(store_name, address) ==
    LET address_parts == Split(Strip(address))
        whole == IF Len(address_parts) > 0
                 THEN <<store_name \o " " \o Join(address_parts)>>
                 ELSE <<>>
        scenarios ==
            whole
            \o ReducedScenarios(store_name, address_parts,
                                Len(address_parts) - 1)
            \o <<store_name>>
    IN  UniqueScenarios(scenarios, <<>>)

\* re.sub(r'\d+', '', town)
RECURSIVE WithoutDigits(_)
WithoutDigits(s) ==
    IF Len(s) = 0 THEN ""
    ELSE IF IsDigit(SubSeq(s, 1, 1)) THEN WithoutDigits(SubSeq(s, 2, Len(s)))
    ELSE SubSeq(s, 1, 1) \o WithoutDigits(SubSeq(s, 2, Len(s)))

\* NaverSearchAPI._is_similar_town
naver_is_similar_town(town1, town2) ==
    WithoutDigits(town1) = WithoutDigits(town2)

\* NaverSearchAPI.validate_address_match: the province and the city are
\* equal, and so are the towns (digits apart) when both addresses have one.
naver_validate_address_match(original_address, api_address) ==
    LET original_parsed == parse_address(original_address)
        api_parsed == parse_address(api_address)
    IN  /\ original_parsed.province = api_parsed.province
        /\ original_parsed.city = api_parsed.city
        /\ (original_parsed.town # None /\ api_parsed.town # None)
               => \/ original_parsed.town = api_parsed.town
                  \/ naver_is_similar_town(original_parsed.town[1],
                                           api_parsed.town[1])

\* KakaoMapAPI.validate_address_match: the province and the city are
\* equal; every branch on the towns returns True.
kakao_validate_address_match(original_address, api_address) ==
    LET original_parsed == parse_address(original_address)
        api_parsed == parse_address(api_address)
    IN  /\ original_parsed.province = api_parsed.province
        /\ original_parsed.city = api_parsed.city

\* A validation that lets every candidate pass.
validate_address_match_any(api, original_address, api_address) == TRUE

validate_address_match(api, original_address, api_address) ==
    IF api = "naver"
    THEN naver_validate_address_match(original_address, api_address)
    ELSE kakao_validate_address_match(original_address, api_address)

\* The longest address the model hands to search_location, in words.
MaxTokens == 4

\* The most queries of one search_location call that end in an exception,
\* a status other than 200, or a rejected candidate.
MaxUpsets == 2

AddressTokens == <<"Seoul", "Gangnam-gu", "Irwon-dong", "12beonji", "Tower">>

\* The addresses of the listings to resolve.
GeoAddresses ==
    { Join(SubSeq(AddressTokens, 1, n)) :
          n \in 0..(IF MaxTokens < Len(AddressTokens) THEN MaxTokens
                    ELSE Len(AddressTokens)) }

\* The names of the listings to resolve.
GeoNames == {"Cafe", " (ju) Cafe inc.", "(ju)"}

\* The first item (Naver) or document (Kakao) of an answer: its title or
\* place_name, its lot address (address, address_name) and its road
\* address (roadAddress, road_address_name).  Every one has coordinates.
Items ==
    { [place_name |-> "Cafe Irwon",
       address |-> "Seoul Gangnam-gu Irwon-dong 12",
       road_address |-> " Seoul Gangnam-gu Gwangpyeong-ro 1 "],
      [place_name |-> "Cafe Irwon",
       address |-> "Seoul Gangnam-gu Irwon1-dong 12",
       road_address |-> ""],
      [place_name |-> "Cafe Daechi",
       address |-> "Seoul Gangnam-gu Daechi-dong 5",
       road_address |-> ""],
      [place_name |-> "Cafe Haeundae",
       address |-> "Busan Haeundae-gu U-dong 1",
       road_address |-> "Busan Haeundae-gu Haeundae-ro 1"],
      [place_name |-> "Cafe Irwon",
       address |-> "",
       road_address |-> "Seoul Gangnam-gu Gwangpyeong-ro 1"] }

\* What requests.get does: it raises (a timeout, a refused connection), or
\* it returns a response with a status and the items of its body.
Responses ==
    { [raises |-> TRUE, status_code |-> 0, items |-> <<>>],
      [raises |-> FALSE, status_code |-> 500, items |-> <<>>],
      [raises |-> FALSE, status_code |-> 200, items |-> <<>>] }
    \cup { [raises |-> FALSE, status_code |-> 200, items |-> <<item>>] :
               item \in Items }

\* A lookup without a place: {'found': False, 'error': ...}.
Unfound(error) ==
    [raised |-> FALSE, found |-> FALSE, error |-> error, place_name |-> "",
     address |-> "", road_address |-> "", compare_address |-> "",
     final_address |-> ""]

\* The "try" of get_coordinates_by_keyword once requests.get has returned:
\* a status other than 200 is answered as not found (handle_api_error), and
\* so is a body without items ('No results found' with Naver,
\* handle_api_error with Kakao).
Answer(api, response) ==
    IF response.status_code # 200 THEN Unfound("HTTP")
    ELSE IF Len(response.items) = 0
    THEN Unfound(IF api = "naver" THEN "No results found" ELSE "HTTP")
    ELSE LET item == response.items[1]
             road_address == Strip(item.road_address)
             base_address == Strip(item.address)
         IN  [raised |-> FALSE, found |-> TRUE, error |-> "",
              place_name |-> item.place_name,
              address |-> base_address,
              road_address |-> road_address,
              compare_address |->
                  IF base_address # "" THEN base_address ELSE road_address,
              final_address |->
                  IF road_address # "" THEN road_address ELSE base_address]

\* The lookup without its "except Exception": the exception of
\* requests.get leaves it.
get_coordinates_by_keyword_unguarded(api, response) ==
    IF response.raises THEN [Unfound("exception") EXCEPT !.raised = TRUE]
    ELSE Answer(api, response)

\* NaverSearchAPI.get_coordinates_by_keyword and KakaoMapAPI's: an
\* exception of requests.get (a timeout, a refused connection) is caught
\* and answered as not found.
get_coordinates_by_keyword(api, response) ==
    IF response.raises THEN Unfound("exception")
    ELSE Answer(api, response)

\* validate_address_match for every address of a listing and every
\* address a provider may compare it with.
Validated ==
    [api \in {"naver", "kakao"} |->
        [address \in GeoAddresses |->
            { compare_address \in
                  { Strip(item.address) : item \in Items }
                  \cup { Strip(item.road_address) : item \in Items } :
                  validate_address_match(api, address, compare_address) }]]

\* How the scenario loop saw one query end.
QueryOutcome(api, address, response) ==
    LET result == get_coordinates_by_keyword(api, response)
    IN  IF result.raised THEN "raised"
        ELSE IF result.found
        THEN IF result.compare_address \in Validated[api][address]
             THEN "accepted"
             ELSE "rejected"
        ELSE IF response.raises THEN "exception"
        ELSE IF response.status_code # 200 THEN "status"
        ELSE "no_items"

Upsets == {"raised", "exception", "status", "rejected"}

\* "for i, query in enumerate(search_scenarios, 1)" stops after the first
\* scenario.
ScenariosLeft_first_only(i, search_scenarios) ==
    i <= Len(search_scenarios) /\ i <= 1

\* "for i, query in enumerate(search_scenarios, 1)" has a scenario left.
ScenariosLeft(i, search_scenarios) == i <= Len(search_scenarios)

\* ' -> '.join(search_scenarios)
RECURSIVE JoinArrow(_)
JoinArrow(words) ==
    IF Len(words) = 0 THEN ""
    ELSE IF Len(words) = 1 THEN words[1]
    ELSE words[1] \o " -> " \o JoinArrow(Tail(words))

\* A found result that names Naver whichever provider found the place.
ProviderFound_as_naver(api, i, query, result) ==
    [found |-> TRUE, search_type |-> <<api \o "_reduction", i>>,
     query |-> query, coordinates |-> <<result>>, api_used |-> "naver"]

\* What search_store_location returns: with a place ...
ProviderFound(api, i, query, result) ==
    [found |-> TRUE, search_type |-> <<api \o "_reduction", i>>,
     query |-> query, coordinates |-> <<result>>, api_used |-> api]

\* ... after the last scenario ...
ProviderFailed(api, search_scenarios) ==
    [found |-> FALSE, search_type |-> <<api \o "_reduction_failed">>,
     query |-> JoinArrow(search_scenarios), coordinates |-> None,
     api_used |-> api]

\* ... and from its "except Exception".
ProviderError(api, store_name) ==
    [found |-> FALSE, search_type |-> <<api \o "_error">>,
     query |-> store_name, coordinates |-> None, api_used |-> api]

\* The last return of search_location.
AllFailed(store_name, cleaned_store_name, address) ==
    [found |-> FALSE, search_type |-> <<"all_failed">>,
     query |-> "naver+kakao all failed: " \o cleaned_store_name,
     coordinates |-> None, api_used |-> "none",
     api_store_name |-> store_name, api_store_addr |-> address]

\* search_location with the found result of a provider: the name and the
\* address of the place are added to it.
WithApiStore(api, provider_result, address) ==
    LET coordinates == provider_result.coordinates[1]
        api_address == Strip(coordinates.final_address)
    IN  [found |-> TRUE, search_type |-> provider_result.search_type,
         query |-> provider_result.query,
         coordinates |-> provider_result.coordinates,
         api_used |-> provider_result.api_used,
         api_store_name |-> coordinates.place_name,
         api_store_addr |->
             IF api = "naver"
             THEN IF api_address # "" THEN api_address ELSE address
             ELSE coordinates.road_address]

\* A provider starts: search_store_location builds its scenarios.
StartProvider(g, api) ==
    [g EXCEPT !.at = api,
              !.search_scenarios =
                  create_search_scenarios_with_reduction(
                      g.cleaned_store_name,
                      clean_address_for_search(g.address)),
              !.i = 1]

\* search_location goes on after a provider returned provider_result.
AfterProvider(g, api, provider_result) ==
    IF provider_result.found
    THEN [g EXCEPT !.at = "returned",
                   !.result = <<WithApiStore(api, provider_result,
                                             g.address)>>]
    ELSE IF api = "naver" /\ g.kakao_api
    THEN StartProvider(g, "kakao")
    ELSE [g EXCEPT !.at = "returned",
                   !.result = <<AllFailed(g.store_name,
                                          g.cleaned_store_name,
                                          g.address)>>]

InitGeo ==
    /\ ExecIdle
    /\ CrawlIdle
    /\ UnitIdle
    /\ report = NoReport
    /\ writers = NoWriters
    /\ db = EmptyDb
    /\ failed_stores = <<>>
    /\ csv_file = {}
    /\ crawling_stats = NoCrawlingStats
    /\ sv = NoSave
    /\ run = NoRun
    /\ \E naver_api, kakao_api \in BOOLEAN :
       \E store_name \in GeoNames, address \in GeoAddresses :
           /\ naver_api \/ kakao_api
           /\ geo = [NoGeo EXCEPT !.at = "called",
                                  !.naver_api = naver_api,
                                  !.kakao_api = kakao_api,
                                  !.store_name = store_name,
                                  !.address = address,
                                  !.upsets_left = MaxUpsets]

\* search_location is entered: the name is cleaned and the first provider
\* that was initialised is called.
SearchLocation ==
    /\ geo.at = "called"
    /\ LET g == [geo EXCEPT
                     !.cleaned_store_name = clean_store_name(geo.store_name)]
       IN  geo' = IF g.naver_api THEN StartProvider(g, "naver")
                  ELSE StartProvider(g, "kakao")
    /\ UNCHANGED outsideGeo

\* One turn of the scenario loop of search_store_location: the query is
\* sent, the answer is validated, and the loop returns or goes on.
Query(api) ==
    /\ geo.at = api
    /\ ScenariosLeft(geo.i, geo.search_scenarios)
    /\ \E response \in Responses :
           LET query == geo.search_scenarios[geo.i]
               result == get_coordinates_by_keyword(api, response)
               outcome == QueryOutcome(api, geo.address, response)
               g == [geo EXCEPT
                         !.sent = Append(@, [api |-> api, query |-> query,
                                             i |-> geo.i,
                                             outcome |-> outcome]),
                         !.upsets_left =
                             IF outcome \in Upsets THEN @ - 1 ELSE @]
           IN  /\ outcome \in Upsets => geo.upsets_left > 0
               /\ geo' =
                      IF outcome = "raised"
                      THEN AfterProvider(
                               g, api,
                               ProviderError(api, geo.cleaned_store_name))
                      ELSE IF outcome = "accepted"
                      THEN AfterProvider(
                               g, api,
                               ProviderFound(api, geo.i, query, result))
                      ELSE [g EXCEPT !.i = @ + 1]
    /\ UNCHANGED outsideGeo

\* The scenario loop is over without a place.
Exhausted(api) ==
    /\ geo.at = api
    /\ ~ScenariosLeft(geo.i, geo.search_scenarios)
    /\ geo' = AfterProvider(geo, api,
                            ProviderFailed(api, geo.search_scenarios))
    /\ UNCHANGED outsideGeo

NaverQuery == Query("naver")

NaverExhausted == Exhausted("naver")

KakaoQuery == Query("kakao")

KakaoExhausted == Exhausted("kakao")

NextGeo ==
    \/ SearchLocation
    \/ NaverQuery
    \/ NaverExhausted
    \/ KakaoQuery
    \/ KakaoExhausted

SpecGeo == InitGeo /\ [][NextGeo]_vars

\* The positions of the queries sent to a provider.
SentTo(api) == { p \in 1..Len(geo.sent) : geo.sent[p].api = api }

\* C18: with both providers initialised, a query goes to Kakao only after
\* every scenario has been sent to Naver and none of them gave a place
\* that was accepted; after an accepted Naver place Kakao is never asked.
C18_KakaoOnlyAfterNaverExhausted ==
    (geo.naver_api /\ geo.kakao_api) =>
        /\ \A p \in SentTo("kakao") :
               /\ \A j \in 1..Len(geo.search_scenarios) :
                      \E q \in SentTo("naver") :
                          /\ q < p
                          /\ geo.sent[q].query = geo.search_scenarios[j]
               /\ \A q \in SentTo("naver") :
                      q < p => geo.sent[q].outcome # "accepted"
        /\ (\E q \in SentTo("naver") : geo.sent[q].outcome = "accepted")
               => SentTo("kakao") = {}

\* C18 witness: Kakao was asked after Naver had answered all of several
\* scenarios without an accepted place.
C18_Witness ==
    /\ geo.naver_api /\ geo.kakao_api
    /\ Len(geo.search_scenarios) >= 3
    /\ Cardinality(SentTo("naver")) = Len(geo.search_scenarios)
    /\ SentTo("kakao") # {}

\* A query that ended without an accepted place.
Unaccepted(p) ==
    geo.sent[p].outcome \in {"exception", "status", "rejected", "no_items"}

\* C19: in the scenario loop of either provider the k-th query is the
\* k-th scenario, so no scenario is sent twice; a query that ended in an
\* exception, a status other than 200 or a rejected candidate is followed
\* by the next scenario; and no exception leaves the lookup.
C19_FailedScenarioAdvances ==
    \A api \in {"naver", "kakao"} :
        /\ \A p \in SentTo(api) :
               /\ geo.sent[p].i = Cardinality({ q \in SentTo(api) : q <= p })
               /\ geo.sent[p].query = geo.search_scenarios[geo.sent[p].i]
               /\ geo.sent[p].outcome # "raised"
               /\ (/\ Unaccepted(p)
                   /\ geo.sent[p].i < Len(geo.search_scenarios)) =>
                      \/ geo.at = api /\ geo.i = geo.sent[p].i + 1
                      \/ \E q \in SentTo(api) :
                             q = p + 1 /\ geo.sent[q].i = geo.sent[p].i + 1
        /\ \A p, q \in SentTo(api) :
               geo.sent[p].query = geo.sent[q].query => p = q

\* C19 witness: a provider's query ended in an exception, a later one in
\* a rejected candidate, and the scenario after each was sent.
C19_Witness ==
    \E api \in {"naver", "kakao"} :
    \E p, q \in SentTo(api) :
        /\ geo.sent[p].outcome = "exception"
        /\ geo.sent[q].outcome = "rejected"
        /\ p + 1 \in SentTo(api)
        /\ q + 1 \in SentTo(api)

\* The scenarios have been built.
ScenariosBuilt == geo.at \in {"naver", "kakao"}

\* C20: for a name that is not empty and an address of k >= 1 words the
\* scenarios are the name with all k words, with the first k-1 words, ...,
\* with the first word, and the name alone, in this order; the number of
\* words never grows and the last scenario is the name.
C20_ScenariosReduceToTheName ==
    LET name == geo.cleaned_store_name
        parts == Split(clean_address_for_search(geo.address))
        k == Len(parts)
        scenarios == geo.search_scenarios
    IN  (ScenariosBuilt /\ name # "" /\ k >= 1) =>
            /\ Len(scenarios) = k + 1
            /\ \A j \in 1..k :
                   scenarios[j]
                       = name \o " " \o Join(SubSeq(parts, 1, k + 1 - j))
            /\ scenarios[k + 1] = name
            /\ \A j \in 1..k :
                   Len(Split(scenarios[j + 1])) <= Len(Split(scenarios[j]))
            /\ \A j, l \in 1..(k + 1) :
                   scenarios[j] = scenarios[l] => j = l

\* C20 witness: the scenarios of an address of four words.
C20_Witness ==
    /\ ScenariosBuilt
    /\ geo.cleaned_store_name # ""
    /\ Len(Split(clean_address_for_search(geo.address))) = MaxTokens
    /\ Len(geo.search_scenarios) = MaxTokens + 1

\* search_location has returned.
GeoReturned == geo.at = "returned"

\* No query of the call gave a place that was accepted.
NoneAccepted == \A p \in 1..Len(geo.sent) : geo.sent[p].outcome # "accepted"

\* Both providers were asked every scenario, and none gave a place.
BothExhausted ==
    /\ GeoReturned
    /\ geo.naver_api /\ geo.kakao_api
    /\ Cardinality(SentTo("naver")) = Len(geo.search_scenarios)
    /\ Cardinality(SentTo("kakao")) = Len(geo.search_scenarios)
    /\ NoneAccepted

\* C21: when both providers have been asked every scenario without an
\* accepted place, search_location returns found False and the 'query' of
\* its result holds every query that was sent.
C21_FailedQueryHoldsEveryAttempt ==
    BothExhausted =>
        /\ ~geo.result[1].found
        /\ \A p \in 1..Len(geo.sent) :
               Contains(geo.result[1].query, geo.sent[p].query)

\* C22: when no Naver query gave an accepted place and a Kakao query did,
\* search_location returns found True with api_used 'kakao', and the save
\* path counts the result as one kakao_success.
C22_KakaoFallbackSucceeds ==
    (/\ GeoReturned
     /\ \A p \in SentTo("naver") : geo.sent[p].outcome # "accepted"
     /\ \E p \in SentTo("kakao") : geo.sent[p].outcome = "accepted") =>
        /\ geo.result[1].found
        /\ geo.result[1].api_used = "kakao"
        /\ CountProvider(NoSaveStats, geo.result[1].api_used)
               = [NoSaveStats EXCEPT !.kakao_success = 1]

\* C22 witness: Naver answered all of several scenarios without an
\* accepted place, and Kakao gave one for the name alone.
C22_Witness ==
    /\ GeoReturned
    /\ Len(geo.search_scenarios) >= 2
    /\ Cardinality(SentTo("naver")) = Len(geo.search_scenarios)
    /\ \E p \in SentTo("kakao") :
           /\ geo.sent[p].outcome = "accepted"
           /\ geo.sent[p].query = geo.cleaned_store_name
    /\ geo.result[1].api_used = "kakao"

\* C23: in every found result the address that was validated is the lot
\* address, or the road address when there is no lot address; the address
\* handed on for storage is the road address, or the lot address when
\* there is no road address, and so is not empty when one of them is not.
C23_StoredAddressPrefersRoad ==
    (GeoReturned /\ geo.result[1].found) =>
        LET coordinates == geo.result[1].coordinates[1]
            lot == coordinates.address
            road == coordinates.road_address
        IN  /\ coordinates.compare_address = IF lot # "" THEN lot ELSE road
            /\ geo.result[1].api_store_addr
                   = IF road # "" THEN road ELSE lot
            /\ (lot # "" \/ road # "") => geo.result[1].api_store_addr # ""

(***************************************************************************)
(* Part 9: one Database call and its session (Database.get_session)        *)
(***************************************************************************)

\* The most Database calls the model makes one after another.
MaxCalls == 2

\* A call of a writing method of Database and its arguments.
WriteOp(op, name, code, address, province, city, town) ==
    [op |-> op, name |-> name, code |-> code, address |-> address,
     province |-> province, city |-> city, town |-> town]

\* Two categories with one code, a third category, a store twice over and
\* two regions.
WriteOps ==
    { WriteOp("create_category", "Cafe", "CAFE", "", "", "", None),
      WriteOp("create_category", "cafe", "CAFE", "", "", "", None),
      WriteOp("create_category", "Food", "FOOD", "", "", "", None),
      WriteOp("create_store", "Cafe Irwon", "Cafe",
              "Seoul Gangnam-gu Gwangpyeong-ro 1", "", "", None),
      WriteOp("get_or_create_region", "", "", "", "Seoul-teukbyeolsi",
              "Gangnam-gu", <<"Irwon-dong">>),
      WriteOp("get_or_create_region", "", "", "", "Seoul-teukbyeolsi",
              "Gangnam-gu", None) }

\* What may go wrong in a call apart from what the tables forbid: the
\* flush fails, or the commit does.
TxnFaults == {"none", "flush", "commit"}

\* The body of the "with self.get_session() as session" of a writing
\* method, from the tables d the session sees: the tables after its flush,
\* and whether the flush raised.
WithBody(d, op) ==
    IF op.op = "create_category"
    THEN create_category(d, op.code, op.name)
    ELSE IF op.op = "create_store"
    THEN [db |-> create_store(d, op.name, op.code, 1, op.address,
                              <<37>>, <<127>>),
          raised |-> FALSE]
    ELSE [db |-> get_or_create_region(d, op.province, op.city, op.town).db,
          raised |-> FALSE]

\* The tables after an "except" that commits what the session holds.
Rollback_keeps(d, session) == session

\* get_session, "except Exception: session.rollback()": the tables are
\* those of the last commit.
Rollback(d, session) == d

\* An "except" that raises an error of its own.
Reraise_other(e) == "DatabaseError"

\* get_session, "raise": the exception that was caught.
Reraise(e) == e

InitTxn ==
    /\ ExecIdle
    /\ CrawlIdle
    /\ geo = NoGeo
    /\ report = NoReport
    /\ writers = NoWriters
    /\ failed_stores = <<>>
    /\ csv_file = {}
    /\ crawling_stats = NoCrawlingStats
    /\ sv = NoSave
    /\ run = NoRun
    /\ route = NoRoute
    /\ ap = NoParse
    /\ dong_loop = NoLeaf
    /\ db = EmptyDb
    /\ txn = [NoTxn EXCEPT !.calls_left = MaxCalls]

\* A writing method is called: get_session opens a session and yields it.
TxnCall ==
    /\ txn.at \in {"idle", "returned", "raised"}
    /\ txn.calls_left > 0
    /\ \E op \in WriteOps, fault \in TxnFaults :
           txn' = [at |-> "with", op |-> <<op>>, fault |-> fault,
                   before |-> <<db>>, session |-> <<db>>, occurred |-> None,
                   out |-> None, calls_left |-> txn.calls_left - 1]
    /\ UNCHANGED db
    /\ UNCHANGED outsideTxn

\* The body of the "with" runs up to its return: the row is added and
\* flushed into the session, or the flush raises.
TxnBody ==
    /\ txn.at = "with"
    /\ LET body == WithBody(txn.session[1], txn.op[1])
       IN  txn' =
               IF txn.fault = "flush" /\ body.db # txn.session[1]
               THEN [txn EXCEPT !.at = "except",
                                !.occurred = <<"OperationalError">>]
               ELSE IF body.raised
               THEN [txn EXCEPT !.at = "except",
                                !.occurred = <<"IntegrityError">>]
               ELSE [txn EXCEPT !.at = "commit", !.session = <<body.db>>]
    /\ UNCHANGED db
    /\ UNCHANGED outsideTxn

\* get_session after the yield: session.commit(), and the method returns;
\* or the commit raises.
TxnCommit ==
    /\ txn.at = "commit"
    /\ IF txn.fault = "commit"
       THEN /\ txn' = [txn EXCEPT !.at = "except",
                                  !.occurred = <<"CommitError">>]
            /\ UNCHANGED db
       ELSE /\ db' = txn.session[1]
            /\ txn' = [txn EXCEPT !.at = "returned", !.out = <<"returned">>]
    /\ UNCHANGED outsideTxn

\* get_session, "except Exception": session.rollback() and raise; the
\* caller of the method sees the exception.
TxnExcept ==
    /\ txn.at = "except"
    /\ db' = Rollback(db, txn.session[1])
    /\ txn' = [txn EXCEPT !.at = "raised",
                          !.session = <<db'>>,
                          !.out = <<"raised", Reraise(txn.occurred[1])>>]
    /\ UNCHANGED outsideTxn

NextTxn == TxnCall \/ TxnBody \/ TxnCommit \/ TxnExcept

SpecTxn == InitTxn /\ [][NextTxn]_vars

\* The row the call was to write is in the tables d.
RowIn(d, op) ==
    IF op.op = "create_category"
    THEN \E i \in 1..Len(d.categories) : d.categories[i].name = op.name
    ELSE IF op.op = "create_store"
    THEN \E i \in 1..Len(d.stores) :
             /\ d.stores[i].name = op.name
             /\ d.stores[i].address = op.address
    ELSE RegionsWith(d, op.province, op.city, op.town) # {}

\* C24: a writing call of Database that raises leaves the tables as they
\* were before the call and raises the error that occurred; a call that
\* returns has its row in the committed tables; and the committed tables
\* change in no step but the commit of a call that returns.
C24_WritesAreAtomic ==
    /\ [](txn.at = "raised" =>
              /\ db = txn.before[1]
              /\ txn.occurred # None
              /\ txn.out = <<"raised", txn.occurred[1]>>)
    /\ [](txn.at = "returned" =>
              /\ txn.occurred = None
              /\ RowIn(db, txn.op[1]))
    /\ [][db' # db => txn.at = "commit" /\ txn'.at = "returned"]_vars

\* C24 witness: create_store had flushed its row when the commit failed;
\* the call raised and the Store table is as before.
C24_Witness ==
    /\ txn.at = "raised"
    /\ txn.op[1].op = "create_store"
    /\ txn.occurred = <<"CommitError">>
    /\ db = txn.before[1]

\* The step is one turn of the loop of save_store_data.
ListingStep == Len(run.log') = Len(run.log) + 1

\* How many listings of the batch that is being saved have been through
\* the loop.
ProcessedOfBatch ==
    Cardinality({ k \in 1..Len(run.log) : run.log[k].batch = run.b })

\* C25: a turn of the loop in which a write to the Region, Category or
\* Store table raises adds exactly one to errors and stays in the loop at
\* the next listing, and save_store_data comes to its end only after
\* every listing of the batch has been through the loop.
C25_WriteErrorIsCountedOnce ==
    /\ [][(/\ ListingStep
           /\ \/ run.log'[Len(run.log')].fault # "none"
              \/ run.log'[Len(run.log')].outcome = "error") =>
              /\ sv'.stats.errors = sv.stats.errors + 1
              /\ \A key \in DOMAIN sv.stats \ {"errors", "naver_success",
                                               "kakao_success"} :
                     sv'.stats[key] = sv.stats[key]
              /\ sv'.at = "loop"
              /\ sv'.i = sv.i + 1
              /\ run'.at = run.at]_vars
    /\ [](sv.at \in {"returned", "raised"} => ProcessedOfBatch = sv.n)

\* C25 witness: the Store write of the first listing of a batch raised,
\* the second listing was processed, and the call returned with one error.
C25_Witness ==
    /\ sv.at = "returned"
    /\ sv.stats.errors = 1
    /\ \E k, l \in 1..Len(run.log) :
           /\ k < l
           /\ run.log[k].batch = run.log[l].batch
           /\ run.log[k].fault = "store"

\* A raw listing without a name or without an address.
Incomplete(listing) ==
    Strip(listing.name) = "" \/ Strip(listing.address) = ""

\* C26: a listing whose name or address is empty or blank is counted as
\* skipped and as nothing else; the turn of the loop does not call
\* search_location, writes no Region, Category or Store row, records no
\* failed lookup and stays in the loop.
C26_IncompleteListingIsSkipped ==
    [][(ListingStep /\ Incomplete(run.log'[Len(run.log')].listing)) =>
           /\ run.log'[Len(run.log')].outcome = "skipped"
           /\ ~run.log'[Len(run.log')].searched
           /\ sv'.stats = Count(sv.stats, "skipped")
           /\ db' = db
           /\ failed_stores' = failed_stores
           /\ sv'.at = "loop"
           /\ run'.at = run.at]_vars

\* C26 witness: a listing without a name and one without an address were
\* skipped, and the database is empty.
C26_Witness ==
    /\ Len(run.log) = 2
    /\ Strip(run.log[1].listing.name) = ""
    /\ Strip(run.log[2].listing.address) = ""
    /\ run.log[1].outcome = "skipped" /\ run.log[2].outcome = "skipped"
    /\ db = EmptyDb

(***************************************************************************)
(* Part 10: the listings of one dong, from the page to save_store_data     *)
(* (get_total_data_count, extract_data, extract_data_with_pagination and   *)
(* the leaf of the three traversals)                                       *)
(***************************************************************************)

\* extract_data_with_pagination(batch_size=200), as both traversals call it.
BatchSize == 200

\* "save_batch_size = 50" and "range(0, stores_count, 50)".
SaveBatchSize == 50

\* "if stores_count > 100" of crawl_single_region_with_recovery.
BatchSaveThreshold == 100

Min(a, b) == IF a < b THEN a ELSE b

\* The page after a dong was searched: resultMinsJson holds length items,
\* numbered from 0, and those in invalid lack a name or an address.
Page(length, invalid) == [length |-> length, invalid |-> invalid]

Pages ==
    { Page(n, inv) :
        n \in {0, 1, 50, 51, 100, 101, 199, 200, 500, 501, 1000},
        inv \in {{}, {0}, {199}, {200, 999}} }

\* The traversals, and "pagination" for a call of
\* extract_data_with_pagination by itself.
Engines == {"pagination", "with_recovery", "smart", "simple"}

\* A list of listings of the page, as runs <<lo, hi>> of the items lo up to
\* hi - 1: the items from lo below hi that have a name and an address.
RECURSIVE Runs(_, _, _)
Runs(lo, hi, invalid) ==
    IF lo >= hi
    THEN <<>>
    ELSE LET inside == {k \in invalid : lo <= k /\ k < hi}
         IN  IF inside = {}
             THEN << <<lo, hi>> >>
             ELSE LET k == CHOOSE x \in inside : \A y \in inside : x <= y
                  IN  (IF k > lo THEN << <<lo, k>> >> ELSE <<>>)
                          \o Runs(k + 1, hi, invalid)

\* len() of a list of runs.
RECURSIVE Len_(_)
Len_(runs) ==
    IF runs = <<>> THEN 0
    ELSE (Head(runs)[2] - Head(runs)[1]) + Len_(Tail(runs))

\* get_total_data_count: resultMinsJson.length, and 0 when the script
\* raises.
get_total_data_count(page, ok) == IF ok THEN page.length ELSE 0

\* extract_batch_data(start_idx, end_idx): the valid items of
\* resultMinsJson from start_idx below min(end_idx, length), and [] when
\* the script raises.
extract_batch_data(page, start_idx, end_idx, ok) ==
    IF ok
    THEN Runs(start_idx, Min(end_idx, page.length), page.invalid)
    ELSE <<>>

\* extract_data: the valid items of resultMinsJson, and None when the
\* script raises.
extract_data(page, ok) ==
    IF ok
    THEN <<[results |-> Runs(0, page.length, page.invalid)]>>
    ELSE None

\* A batch that ends a full batch_size after its start.
EndIdx_unclamped(start_idx, batch_size, total_count) ==
    start_idx + batch_size

\* "end_idx = min(start_idx + batch_size, total_count)".
EndIdx(start_idx, batch_size, total_count) ==
    Min(start_idx + batch_size, total_count)

\* "total_batches = (total_count + batch_size - 1) // batch_size".
TotalBatches(total_count, batch_size) ==
    (total_count + batch_size - 1) \div batch_size

\* A slice that starts at the head of the list every time.
SaveSlice_from_head(i, stores_count) ==
    <<0, Min(i + SaveBatchSize, stores_count)>>

\* "data['results'][i:i + 50]": the positions from i below i + 50 of the
\* list, as far as it goes.
SaveSlice(i, stores_count) == <<i, Min(i + SaveBatchSize, stores_count)>>

\* "if data and data.get('results')".
HasResults(data) == data # None /\ data[1].results # <<>>

InitRoute ==
    /\ ExecIdle
    /\ CrawlIdle
    /\ geo = NoGeo
    /\ report = NoReport
    /\ writers = NoWriters
    /\ failed_stores = <<>>
    /\ csv_file = {}
    /\ crawling_stats = NoCrawlingStats
    /\ sv = NoSave
    /\ run = NoRun
    /\ db = EmptyDb
    /\ txn = NoTxn
    /\ ap = NoParse
    /\ dong_loop = NoLeaf
    /\ \E engine \in Engines, auto_pagination \in BOOLEAN, page \in Pages :
           /\ page.invalid \subseteq 0 .. (page.length - 1)
           /\ auto_pagination \/ engine = "smart"
           /\ route =
                  [NoRoute EXCEPT
                      !.at = IF engine = "pagination" THEN "paginate"
                             ELSE IF engine = "simple" THEN "extract"
                             ELSE "count",
                      !.engine = engine,
                      !.auto_pagination = auto_pagination,
                      !.page = <<page>>]

\* The traversal asks how many listings the dong has and chooses how to
\* extract them (crawl_single_region_smart and _with_recovery).
TotalCount ==
    /\ route.at = "count"
    /\ \E ok \in BOOLEAN :
           LET total_count == get_total_data_count(route.page[1], ok)
           IN  route' =
                   [route EXCEPT
                       !.total_count = total_count,
                       !.at =
                           IF route.engine = "smart" /\ total_count = 0
                           THEN "done"
                           ELSE IF /\ total_count > PaginationThreshold
                                   /\ \/ route.engine = "with_recovery"
                                      \/ route.auto_pagination
                           THEN "paginate"
                           ELSE "extract"]
    /\ UNCHANGED outsideRoute

\* extract_data_with_pagination up to its loop: no listings, no batches.
PaginationCount ==
    /\ route.at = "paginate"
    /\ \E ok \in BOOLEAN :
           LET total_count == get_total_data_count(route.page[1], ok)
           IN  route' =
                   IF total_count = 0
                   THEN [route EXCEPT
                            !.paginated = TRUE,
                            !.paged_count = 0,
                            !.data = <<[results |-> <<>>]>>,
                            !.at = "route"]
                   ELSE [route EXCEPT
                            !.paginated = TRUE,
                            !.paged_count = total_count,
                            !.batch_num = 0,
                            !.at = "batch"]
    /\ UNCHANGED outsideRoute

\* One turn of "for batch_num in range(total_batches)", and the return
\* after the last one.
ExtractBatch ==
    /\ route.at = "batch"
    /\ \E ok \in BOOLEAN :
           LET total_count == route.paged_count
               start_idx   == route.batch_num * BatchSize
               end_idx     == EndIdx(start_idx, BatchSize, total_count)
               batch_data  == extract_batch_data(route.page[1], start_idx,
                                                 end_idx, ok)
               all_results == route.all_results \o batch_data
               last        == route.batch_num + 1
                                  = TotalBatches(total_count, BatchSize)
           IN  route' =
                   [route EXCEPT
                       !.requested = Append(@, <<start_idx, end_idx>>),
                       !.raised = IF ok THEN @
                                  ELSE @ \cup {route.batch_num + 1},
                       !.batches = Append(@, batch_data),
                       !.all_results = all_results,
                       !.batch_num = @ + 1,
                       !.data = IF last
                                THEN <<[results |-> all_results]>>
                                ELSE @,
                       !.at = IF last THEN "route" ELSE "batch"]
    /\ UNCHANGED outsideRoute

\* extract_data, for a dong of ordinary size.
ExtractAll ==
    /\ route.at = "extract"
    /\ \E ok \in BOOLEAN :
           route' = [route EXCEPT
                        !.data = extract_data(route.page[1], ok),
                        !.at = "route"]
    /\ UNCHANGED outsideRoute

\* What the traversal does with the data: nothing when there are no
\* results, one save_store_data of them all, or the loop of slices.
RouteData ==
    /\ route.at = "route"
    /\ LET data == route.data
           stores_count == IF HasResults(data) THEN Len_(data[1].results)
                           ELSE 0
           sliced ==
               \/ /\ route.engine = "with_recovery"
                  /\ stores_count > BatchSaveThreshold
               \/ /\ route.engine = "smart"
                  /\ route.auto_pagination
                  /\ route.total_count > PaginationThreshold
       IN  route' =
               IF route.engine = "pagination" \/ ~HasResults(data)
               THEN [route EXCEPT !.at = "done"]
               ELSE IF sliced
               THEN [route EXCEPT
                        !.stores_count = stores_count,
                        !.i = 0,
                        !.at = "save"]
               ELSE [route EXCEPT
                        !.stores_count = stores_count,
                        !.saved = << <<0, stores_count>> >>,
                        !.at = "done"]
    /\ UNCHANGED outsideRoute

\* One turn of "for i in range(0, stores_count, 50)": save_store_data of
\* the slice.
SaveSliceStep ==
    /\ route.at = "save"
    /\ LET i == route.i + SaveBatchSize
       IN  route' =
               [route EXCEPT
                   !.saved = Append(@, SaveSlice(route.i,
                                                 route.stores_count)),
                   !.i = i,
                   !.at = IF i < route.stores_count THEN "save" ELSE "done"]
    /\ UNCHANGED outsideRoute

NextRoute ==
    \/ TotalCount
    \/ PaginationCount
    \/ ExtractBatch
    \/ ExtractAll
    \/ RouteData
    \/ SaveSliceStep

SpecRoute == InitRoute /\ [][NextRoute]_vars

\* extract_data_with_pagination has returned.
PaginationReturned ==
    route.paginated /\ route.at \in {"route", "save", "done"}

\* The items of the range <<lo, hi>>.
Indices(range) == range[1] .. (range[2] - 1)

\* The requested ranges are [0,B), [B,2B), ... ending at N, no two of them
\* share an index, and together they are 0 .. N-1.
RangesCoverExactly ==
    LET N == route.paged_count
        requested == route.requested
    IN  /\ Len(requested) = TotalBatches(N, BatchSize)
        /\ \A j \in 1 .. Len(requested) :
               requested[j] = <<(j - 1) * BatchSize, Min(j * BatchSize, N)>>
        /\ \A j, k \in 1 .. Len(requested) :
               j < k => Indices(requested[j]) \cap Indices(requested[k]) = {}
        /\ UNION {Indices(requested[j]) : j \in 1 .. Len(requested)}
               = 0 .. (N - 1)

\* Every extracted batch lies inside the range that was requested for it.
BatchesInsideRanges ==
    /\ Len(route.batches) = Len(route.requested)
    /\ \A j \in 1 .. Len(route.batches) :
           \A r \in 1 .. Len(route.batches[j]) :
               Indices(route.batches[j][r]) \subseteq
                   Indices(route.requested[j])

\* No batch script raised and every listing below N has a name and an
\* address.
AllListingsExtractable ==
    /\ route.raised = {}
    /\ \A k \in route.page[1].invalid : k >= route.paged_count

\* C27 (as stated): for a reported count N and batch size B = 200,
\* extract_data_with_pagination requests the ranges [0,B), [B,2B), ...
\* ending at N, pairwise disjoint and with union {0..N-1}, so that the
\* extracted batches hold exactly N elements with no overlap.
C27_BatchesHoldExactlyN ==
    PaginationReturned =>
        /\ RangesCoverExactly
        /\ BatchesInsideRanges
        /\ Len_(route.data[1].results) = route.paged_count

\* C27 (amended): the requested ranges are [0,B), [B,2B), ... ending at N,
\* pairwise disjoint and with union {0..N-1}; the extracted batches do not
\* overlap and hold at most N elements, and exactly N when no batch script
\* raises and every listing has a name and an address.
C27_RangesCoverAndBatchesFit ==
    PaginationReturned =>
        /\ RangesCoverExactly
        /\ BatchesInsideRanges
        /\ Len_(route.data[1].results) <= route.paged_count
        /\ AllListingsExtractable =>
               Len_(route.data[1].results) = route.paged_count

\* 501 listings were extracted whole in three batches, the last of one.
C27_Witness ==
    /\ PaginationReturned
    /\ route.paged_count = 501
    /\ route.requested = << <<0, 200>>, <<200, 400>>, <<400, 501>> >>
    /\ Len_(route.data[1].results) = 501

\* The traversal made its calls of save_store_data for the dong.
LeafSaved ==
    /\ route.at = "done"
    /\ route.engine # "pagination"
    /\ HasResults(route.data)

\* The calls took the listings in order, each listing in one call.
SavedInOrderOnce ==
    LET saved == route.saved
    IN  /\ saved # <<>>
        /\ saved[1][1] = 0
        /\ saved[Len(saved)][2] = Len_(route.data[1].results)
        /\ \A k \in 1 .. Len(saved) : saved[k][1] < saved[k][2]
        /\ \A k \in 1 .. (Len(saved) - 1) : saved[k + 1][1] = saved[k][2]

\* The traversal saves in slices: more than 100 listings in
\* crawl_single_region_with_recovery, a paginated dong in
\* crawl_single_region_smart.
Sliced ==
    \/ /\ route.engine = "with_recovery"
       /\ Len_(route.data[1].results) > BatchSaveThreshold
    \/ /\ route.engine = "smart"
       /\ route.paginated

\* C28 (as stated): every call of save_store_data made by the traversal
\* receives at most 50 listings, the batches are processed in order and
\* each extracted listing is passed to exactly one batch.
C28_EverySaveCallAtMost50 ==
    /\ \A k \in 1 .. Len(route.saved) :
           route.saved[k][2] - route.saved[k][1] <= SaveBatchSize
    /\ LeafSaved => SavedInOrderOnce

\* C28 (amended): the calls of save_store_data take the listings in order,
\* each listing in exactly one call; a call receives at most 50 listings
\* when crawl_single_region_with_recovery extracted more than 100 listings
\* or crawl_single_region_smart paginated, and otherwise one call receives
\* all the listings of the dong (at most 100 in
\* crawl_single_region_with_recovery).
C28_SaveCallsInOrderOnce ==
    /\ LeafSaved => SavedInOrderOnce
    /\ LeafSaved /\ Sliced =>
           \A k \in 1 .. Len(route.saved) :
               route.saved[k][2] - route.saved[k][1] <= SaveBatchSize
    /\ LeafSaved /\ ~Sliced =>
           /\ Len(route.saved) = 1
           /\ route.engine = "with_recovery" =>
                  route.saved[1][2] - route.saved[1][1] <= BatchSaveThreshold

\* 101 listings went to save_store_data in slices of 50, 50 and 1.
C28_Witness ==
    /\ LeafSaved
    /\ route.engine = "with_recovery"
    /\ route.saved = << <<0, 50>>, <<50, 100>>, <<100, 101>> >>

(***************************************************************************)
(* Claims about the counters of the engine (under SpecSave)                *)
(***************************************************************************)

\* get_statistics: the entries of crawling_stats and the success rate, here
\* the fraction <<numerator, denominator>> that the code rounds.
get_statistics(stats) ==
    LET total == stats.total_saved + stats.api_failed
    IN  [key \in DOMAIN stats \cup {"success_rate"} |->
            IF key = "success_rate"
            THEN IF total > 0
                 THEN <<(stats.naver_success + stats.kakao_success) * 100,
                        total>>
                 ELSE <<0, 1>>
            ELSE stats[key]]

\* The running counters of the engine.
RunningCounters ==
    {"saved", "duplicates", "naver_success", "kakao_success", "api_failed",
     "errors"}

\* Every batch submitted so far has returned.
BatchesReturned == sv.at = "idle" /\ run.at \in {"running", "done"}

\* C29: after any sequence of save batches in a run, each running counter
\* reported by get_statistics (saved, duplicates, per-provider successes,
\* api-failures, errors) is the sum of the per-batch values over all the
\* batches processed in the run.
C29_CountersAccumulate ==
    BatchesReturned =>
        \A key \in RunningCounters :
            get_statistics(crawling_stats)[key] = SumKey(run.returned, key)

(***************************************************************************)
(* Part 11: AddressParser.parse_address on its own (SpecParse)             *)
(***************************************************************************)

\* The words of an address, or no word, place by place: a province by its
\* short or its full name, a city, a town and what follows them.
AddressWords ==
    << {"", "Seoul", "Seoul-teukbyeolsi", "Busan", "Jeju"},
       {"", "Gangnam-gu", "Gangnam-gucheong", "Haeundae-gu"},
       {"", "Gaepo-dong", "U-dong"},
       {"", "1", "123", "Tower 2"} >>

\* The words that are there, joined by the separator.
RECURSIVE JoinWith(_, _)
JoinWith(words, separator) ==
    IF words = <<>> THEN ""
    ELSE IF Head(words) = "" THEN JoinWith(Tail(words), separator)
    ELSE IF JoinWith(Tail(words), separator) = "" THEN Head(words)
    ELSE Head(words) \o separator \o JoinWith(Tail(words), separator)

\* Addresses as the listings of the site and the geocoders write them,
\* and addresses without a word.
ParsedAddresses ==
    { JoinWith(<<province, city, town, rest>>, separator) :
        province \in AddressWords[1], city \in AddressWords[2],
        town \in AddressWords[3], rest \in AddressWords[4],
        separator \in {" ", ", "} }
        \cup {"  ", " , "}

InitParse ==
    /\ ExecIdle
    /\ CrawlIdle
    /\ geo = NoGeo
    /\ report = NoReport
    /\ writers = NoWriters
    /\ failed_stores = <<>>
    /\ csv_file = {}
    /\ crawling_stats = NoCrawlingStats
    /\ sv = NoSave
    /\ run = NoRun
    /\ db = EmptyDb
    /\ txn = NoTxn
    /\ route = NoRoute
    /\ dong_loop = NoLeaf
    /\ \E address \in ParsedAddresses :
           ap = [NoParse EXCEPT !.at = "called", !.address = address]

\* parse_address(address) returns.
ParseAddress ==
    /\ ap.at = "called"
    /\ ap' = [ap EXCEPT !.at = "returned",
                        !.parsed = <<parse_address(ap.address)>>]
    /\ UNCHANGED outsideParse

NextParse == ParseAddress

SpecParse == InitParse /\ [][NextParse]_vars

\* The word is the one the province, the city or the town was read from.
RegionToken(part, parsed) ==
    \/ ProvinceOfPart(part) # None /\ ProvinceOfPart(part) = parsed.province
    \/ CityOfPart(part) # None /\ CityOfPart(part) = parsed.city
    \/ TownOfPart(part) # None /\ TownOfPart(part) = parsed.town

\* C30: parse_address("Seoul Gangnam-gu Gaepo-dong 123") returns province
\* "Seoul-teukbyeolsi", city "Gangnam-gu", town "Gaepo-dong" and detail
\* "123": the detail is exactly the tokens left after removing the
\* province, city and town tokens.
C30_DetailIsTheRest ==
    /\ ap.at = "returned"
    /\ ap.address = "Seoul Gangnam-gu Gaepo-dong 123"
    => /\ ap.parsed[1].province = <<"Seoul-teukbyeolsi">>
       /\ ap.parsed[1].city = <<"Gangnam-gu">>
       /\ ap.parsed[1].town = <<"Gaepo-dong">>
       /\ ap.parsed[1].detail = <<"123">>
       /\ \A part \in {"Seoul", "Gangnam-gu", "Gaepo-dong"} :
              RegionToken(part, ap.parsed[1])

\* What parse_address returns when it recognises nothing.
AllNull == [province |-> None, city |-> None, town |-> None, detail |-> None]

\* len(address.strip()) < 5, the test of is_valid_address. The words of the
\* model are written in Latin letters and are no shorter than the words
\* they stand for, so an address that is short here is short in the code.
ShortAddress(address) == Len(Strip(address)) < 5

\* The address holds no word: it is empty or made of blanks and commas.
Wordless(address) == Split(Strip(CommasToBlanks(address))) = <<>>

\* C31 (as stated): for every address that is empty or shorter than 5
\* characters, parse_address returns province, city, town and detail all
\* null.
C31_ShortAddressParsesToNull ==
    ap.at = "returned" /\ ShortAddress(ap.address) => ap.parsed[1] = AllNull

\* C31 (amended): parse_address returns all null for every address without
\* a word (empty, or blanks and commas only), and for no other address,
\* however short.
C31_WordlessAddressParsesToNull ==
    ap.at = "returned" => (ap.parsed[1] = AllNull <=> Wordless(ap.address))

\* The empty address and an address of blanks and a comma were parsed.
C31_Witness ==
    /\ ap.at = "returned"
    /\ ap.address = " , "
    /\ ShortAddress(ap.address)
    /\ ap.parsed[1] = AllNull

(***************************************************************************)
(* Part 12: AddressParser.compare_addresses (SpecCompare)                  *)
(***************************************************************************)

\* The elements of a sequence, as set(str.split()) collects them.
Range(words) == { words[i] : i \in 1..Len(words) }

\* A town test that takes only equal names for similar.
similar_town_exact(town1, town2) == town1 = town2

\* AddressParser._similar_town: the names are equal once their digits are
\* taken out.
similar_town(town1, town2) == WithoutDigits(town1) = WithoutDigits(town2)

\* AddressParser._calculate_string_similarity: the share of the words of
\* both texts that are in each, as the fraction <<numerator, denominator>>.
calculate_string_similarity(str1, str2) ==
    LET set1 == Range(Split(str1))
        set2 == Range(Split(str2))
        union == Cardinality(set1 \cup set2)
    IN  IF str1 = "" \/ str2 = "" \/ union = 0 THEN <<0, 1>>
        ELSE <<Cardinality(set1 \cap set2), union>>

\* AddressParser.compare_addresses: what each dimension adds to the score
\* (the detail as a fraction), the total weight of the dimensions that both
\* addresses have, and the returned quotient as a fraction.
compare_addresses(addr1, addr2) ==
    LET parsed1 == parse_address(addr1)
        parsed2 == parse_address(addr2)
        both(key) == parsed1[key] # None /\ parsed2[key] # None
        province == IF both("province") /\ parsed1.province = parsed2.province
                    THEN 3 ELSE 0
        city == IF both("city") /\ parsed1.city = parsed2.city THEN 3 ELSE 0
        town == IF ~both("town") THEN 0
                ELSE IF parsed1.town = parsed2.town THEN 2
                ELSE IF similar_town(parsed1.town[1], parsed2.town[1]) THEN 1
                ELSE 0
        detail == IF both("detail")
                  THEN calculate_string_similarity(parsed1.detail[1],
                                                   parsed2.detail[1])
                  ELSE <<0, 1>>
        total_weight == (IF both("province") THEN 3 ELSE 0)
                        + (IF both("city") THEN 3 ELSE 0)
                        + (IF both("town") THEN 2 ELSE 0)
                        + (IF both("detail") THEN 1 ELSE 0)
    IN  [province |-> province, city |-> city, town |-> town,
         detail |-> detail, total_weight |-> total_weight,
         towns |-> <<parsed1.town, parsed2.town>>,
         similarity |->
             IF total_weight > 0
             THEN <<(province + city + town) * detail[2] + detail[1],
                    total_weight * detail[2]>>
             ELSE <<0, 1>>]

\* The names of a town and of its numbered parts.
TownStems == {"Gaepo", "Irwon"}

DigitGroups == {"", "1", "12"}

TownName(stem, digits) == stem \o digits \o "-dong"

\* Addresses with and without a province, a city, a town and a detail.
ComparedAddresses ==
    { JoinWith(<<province, city, town, rest>>, " ") :
        province \in {"", "Seoul"},
        city \in {"", "Gangnam-gu"},
        town \in {""} \cup { TownName(stem, digits) :
                                stem \in TownStems, digits \in DigitGroups },
        rest \in {"", "Tower 12"} }

InitCompare ==
    /\ ExecIdle
    /\ CrawlIdle
    /\ geo = NoGeo
    /\ report = NoReport
    /\ writers = NoWriters
    /\ failed_stores = <<>>
    /\ csv_file = {}
    /\ crawling_stats = NoCrawlingStats
    /\ sv = NoSave
    /\ run = NoRun
    /\ db = EmptyDb
    /\ txn = NoTxn
    /\ route = NoRoute
    /\ dong_loop = NoLeaf
    /\ \E addr1 \in ComparedAddresses, addr2 \in ComparedAddresses :
           ap = [NoParse EXCEPT !.at = "called", !.address = addr1,
                                !.other = addr2]

\* compare_addresses(addr1, addr2) returns.
CompareAddresses ==
    /\ ap.at = "called"
    /\ ap' = [ap EXCEPT
                 !.at = "returned",
                 !.compared = <<compare_addresses(ap.address, ap.other)>>]
    /\ UNCHANGED outsideParse

NextCompare == CompareAddresses

SpecCompare == InitCompare /\ [][NextCompare]_vars

\* The two towns are one name, with a digit group before the suffix in one
\* of them or a different one in each.
TownsDifferByDigits(towns) ==
    \E stem \in TownStems, d1, d2 \in DigitGroups :
        /\ d1 # d2
        /\ towns = << <<TownName(stem, d1)>>, <<TownName(stem, d2)>> >>

\* C32: two addresses whose towns differ only by a digit group get at
\* least half of the town weight (1 of 2), equal towns get the full weight
\* 2, and the achieved weight never exceeds the total applicable weight.
C32_TownDigitsCountHalf ==
    ap.at = "returned" /\ ap.compared # <<>> =>
        LET c == ap.compared[1]
        IN  /\ TownsDifferByDigits(c.towns) => c.town >= 1
            /\ (c.towns[1] # None /\ c.towns[1] = c.towns[2]) => c.town = 2
            /\ c.similarity[1] <= c.similarity[2]
            /\ c.similarity[1] >= 0 /\ c.similarity[2] > 0

\* Gaepo1-dong was compared with Gaepo-dong and got half of the town
\* weight.
C32_Witness ==
    /\ ap.at = "returned"
    /\ ap.compared # <<>>
    /\ ap.compared[1].towns = << <<"Gaepo1-dong">>, <<"Gaepo-dong">> >>
    /\ ap.compared[1].town = 1
    /\ ap.compared[1].total_weight = 9

\* parse_address of every address of a listing and of a candidate.
ParsedOf ==
    [address \in GeoAddresses
                     \cup { Strip(item.address) : item \in Items }
                     \cup { Strip(item.road_address) : item \in Items } |->
        parse_address(address)]

\* The towns are equal, or equal once their digits are taken out.
TownsAgree(town1, town2) ==
    town1 = town2 \/ WithoutDigits(town1[1]) = WithoutDigits(town2[1])

\* C33: a candidate is returned as the result (found True) only if the
\* province and the city parsed from the address it is compared by equal
\* those of the source address, with either provider; and, with Naver and
\* both towns present, only if the towns are equal or equal after
\* stripping digits.
C33_AcceptedCandidateMatches ==
    (GeoReturned /\ geo.result[1].found) =>
        LET source == ParsedOf[geo.address]
            candidate ==
                ParsedOf[geo.result[1].coordinates[1].compare_address]
        IN  /\ candidate.province = source.province
            /\ candidate.city = source.city
            /\ (/\ geo.result[1].api_used = "naver"
                /\ source.town # None
                /\ candidate.town # None)
                   => TownsAgree(source.town, candidate.town)

\* C33 witness: Naver turned down a candidate of another town or province
\* and a later candidate of the numbered town was returned.
C33_Witness ==
    /\ GeoReturned
    /\ geo.result[1].found
    /\ geo.result[1].api_used = "naver"
    /\ \E p \in SentTo("naver") : geo.sent[p].outcome = "rejected"
    /\ ParsedOf[geo.address].town = <<"Irwon-dong">>
    /\ ParsedOf[geo.result[1].coordinates[1].compare_address].town
           = <<"Irwon1-dong">>

(***************************************************************************)
(* Part 13: Database.get_region_by_name (SpecLookup)                       *)
(***************************************************************************)

\* re.search(r'\d', town)
HasNumber(town) == \E i \in 1..Len(town) : IsDigit(SubSeq(town, i, i))

\* The rows of the city: "Region.province == province, Region.city == city".
BaseQuery(d, province, city) ==
    { i \in 1..Len(d.regions) :
        d.regions[i].province = province /\ d.regions[i].city = city }

\* "Region.town == town" within the rows.
TownIs(d, rows, town) == { i \in rows : d.regions[i].town = <<town>> }

\* "Region.town.like('%town%')" within the rows: NULL is like nothing.
TownLike(d, rows, town) ==
    { i \in rows :
        d.regions[i].town # None /\ Contains(d.regions[i].town[1], town) }

\* The first of the lists that is not empty, or the empty set.
RECURSIVE FirstNonEmpty(_)
FirstNonEmpty(stages) ==
    IF stages = <<>> THEN {}
    ELSE IF Head(stages) # {} THEN Head(stages)
    ELSE FirstNonEmpty(Tail(stages))

\* Database.get_region_by_name: the rows its first successful stage finds;
\* ".first()" returns one of them (the query has no ORDER BY).  The stages
\* that need a town are skipped without one.
get_region_by_name(d, province, city, town) ==
    LET has_town == town # None /\ town[1] # ""
        has_number == has_town /\ HasNumber(town[1])
        base == BaseQuery(d, province, city)
        without == IF has_number THEN WithoutDigits(town[1]) ELSE ""
    IN  FirstNonEmpty(
            << IF has_town THEN TownIs(d, base, town[1]) ELSE {},
               IF has_number THEN TownIs(d, base, without) ELSE {},
               IF has_town THEN TownLike(d, base, town[1]) ELSE {},
               IF has_number THEN TownLike(d, base, without) ELSE {},
               base,
               { i \in 1..Len(d.regions) :
                   /\ Contains(d.regions[i].province, province)
                   /\ Contains(d.regions[i].city, city) } >>)

\* The most Region rows in the table.
MaxRegions == 2

\* Region rows: a city without a town and with three of its towns, and a
\* town of another city.
RegionRows ==
    { <<"Seoul-teukbyeolsi", "Gangnam-gu", None>>,
      <<"Seoul-teukbyeolsi", "Gangnam-gu", <<"Irwon-dong">> >>,
      <<"Seoul-teukbyeolsi", "Gangnam-gu", <<"Irwon1-dong">> >>,
      <<"Seoul-teukbyeolsi", "Gangnam-gu", <<"Daechi-dong">> >>,
      <<"Busan-gwangyeoksi", "Haeundae-gu", <<"U-dong">> >> }

\* The triples asked for: those of the rows, a numbered town that has no
\* row and a province by its short name.
LookupTriples ==
    RegionRows
        \cup { <<"Seoul-teukbyeolsi", "Gangnam-gu", <<"Irwon2-dong">> >>,
               <<"Seoul", "Gangnam-gu", None>> }

\* Tables of Region rows with no triple twice, as get_or_create_region
\* fills them.
RegionTables ==
    { table \in UNION { [1..n -> RegionRows] : n \in 0..MaxRegions } :
        \A i, j \in DOMAIN table : table[i] = table[j] => i = j }

InitLookup ==
    /\ ExecIdle
    /\ CrawlIdle
    /\ geo = NoGeo
    /\ report = NoReport
    /\ writers = NoWriters
    /\ failed_stores = <<>>
    /\ csv_file = {}
    /\ crawling_stats = NoCrawlingStats
    /\ sv = NoSave
    /\ run = NoRun
    /\ route = NoRoute
    /\ ap = NoParse
    /\ dong_loop = NoLeaf
    /\ \E table \in RegionTables, triple \in LookupTriples :
           /\ db = [EmptyDb EXCEPT
                       !.regions =
                           [i \in DOMAIN table |->
                               [province |-> table[i][1],
                                city |-> table[i][2],
                                town |-> table[i][3], code |-> i]]]
           /\ txn = [NoTxn EXCEPT
                        !.at = "with",
                        !.op = <<[op |-> "get_region_by_name",
                                  province |-> triple[1],
                                  city |-> triple[2],
                                  town |-> triple[3]]>>,
                        !.before = <<db>>,
                        !.session = <<db>>]

\* get_region_by_name returns a row (its id here) or None; the session
\* commits nothing new.
LookupRegion ==
    /\ txn.at = "with"
    /\ txn.op[1].op = "get_region_by_name"
    /\ LET rows == get_region_by_name(txn.session[1], txn.op[1].province,
                                      txn.op[1].city, txn.op[1].town)
       IN  \/ /\ rows = {}
              /\ txn' = [txn EXCEPT !.at = "returned", !.out = None]
           \/ \E id \in rows :
                  txn' = [txn EXCEPT !.at = "returned", !.out = <<id>>]
    /\ UNCHANGED db
    /\ UNCHANGED outsideTxn

NextLookup == LookupRegion

SpecLookup == InitLookup /\ [][NextLookup]_vars

\* get_region_by_name has returned.
LookedUp ==
    /\ txn.at = "returned"
    /\ txn.op # <<>>
    /\ txn.op[1].op = "get_region_by_name"

\* C34: whenever a Region row with exactly the requested (province, city,
\* town) exists, for every town value including null, the lookup returns
\* that row and never a row of another town.
C34_ExactRowIsReturned ==
    LookedUp =>
        LET exact == RegionsWith(db, txn.op[1].province, txn.op[1].city,
                                 txn.op[1].town)
        IN  exact # {} => txn.out # None /\ txn.out[1] \in exact

(***************************************************************************)
(* More claims about the traversals (under SpecCrawl)                      *)
(***************************************************************************)

\* The traversal is about to extract the listings of the leaf it selected.
AboutToExtract == frame.at = "extract"

\* The calls that select_dong_and_search made to confirm the area and to
\* trigger the search, as positions of the trace: those between the call
\* of select_dong_and_search that returned last and the call before it.
SearchSteps ==
    { j \in 1..Len(trace) :
        /\ trace[j].at = "select_dong_and_search"
        /\ \A k \in (j + 1)..(Len(trace) - 1) :
               trace[k].at = "select_dong_and_search" }

\* C35: the engine extracts and saves the listings of a dong leaf only
\* after the area-selection confirmation and the search trigger for that
\* leaf both succeeded; select_dong_and_search reports success only then.
C35_ExtractOnlyAfterSearch ==
    AboutToExtract =>
        /\ trace[Len(trace)].op = "select_dong_and_search"
        /\ trace[Len(trace)].ok
        /\ \E j \in SearchSteps :
               trace[j].op = "complete_area_selection" /\ trace[j].ok
        /\ \E j \in SearchSteps :
               trace[j].op = "execute_search_from_popup" /\ trace[j].ok
        /\ \A j \in SearchSteps : trace[j].ok

\* crawl_single_region_simple is running or has returned.
SimpleCalled == frame.proc = "simple"

SimpleReturned == SimpleCalled /\ frame.at = "done"

\* C40: crawl_single_region_simple leaves the recovery mode as it found
\* it: on every exit path recovery_enabled after the call is its value
\* before the call, and while the call runs recovery is disabled, so that
\* no call goes through quick_recovery.
C40_SimpleRestoresRecoveryMode ==
    SimpleCalled =>
        /\ frame.original_recovery_state = enable_recovery
        /\ SimpleReturned => recovery_enabled = frame.original_recovery_state
        /\ ~SimpleReturned => ~recovery_enabled
        /\ recovery_attempts = 0
        /\ \A j \in 1..Len(trace) :
               trace[j].via = "execute_simple" /\ trace[j].recoveries = 0

C40_Witness ==
    /\ SimpleReturned
    /\ enable_recovery
    /\ recovery_enabled
    /\ \E j \in 1..Len(trace) : ~trace[j].ok /\ is_session_error(trace[j].err)

\* What the implementation of a wrapper method reads from the page without
\* setting it itself: get_dongs_for_district the district tabs of the
\* selected province, select_dong_and_search the dong tabs of the selected
\* district, extract_data the results of the search.  access_website
\* navigates and sets the page up itself.
Needs(op) ==
    CASE op = "get_dongs_for_district" -> {"province"}
      [] op = "select_dong_and_search" -> {"province", "district"}
      [] op = "extract_data" -> {"search"}
      [] OTHER -> {}

\* The invocations of the call that came after a successful quick_recovery.
Reruns(e) ==
    IF e.via = "execute_with_recovery" THEN 2..Len(e.pages) ELSE {}

\* C36: after a successful quick_recovery the operation that
\* execute_with_recovery runs again finds the site set-up and the selected
\* province and district re-established; it never runs against a freshly
\* navigated page that lacks the state it depends on.
C36_RerunFindsItsState ==
    \A j \in 1..Len(trace) :
        \A k \in Reruns(trace[j]) : Needs(trace[j].op) \subseteq trace[j].pages[k]

\* The set-up calls that the call of access_website at position j of the
\* trace made: the entries of its nested calls, which precede it.
SetupSteps(j) ==
    { k \in 1..(j - 1) :
        /\ trace[k].at = "access_website"
        /\ \A m \in (k + 1)..(j - 1) : trace[m].at = "access_website" }

\* A call of access_website that reported success.
AccessSucceeded(j) == trace[j].op = "access_website" /\ trace[j].ok

\* A call of access_website that reported failure.
AccessFailed(j) == trace[j].op = "access_website" /\ ~trace[j].ok

\* C37: access_website returns True only if every set-up step it ran (the
\* location agreement, opening the filter popup, setting the search
\* conditions) completed; when it returns False the entry point starts no
\* traversal.
C37_AccessTrueOnlyAfterSetup ==
    \A j \in 1..Len(trace) :
        /\ AccessSucceeded(j) =>
               /\ \A k \in SetupSteps(j) : trace[k].ok
               /\ \E k \in SetupSteps(j) : trace[k].op = "open_filter_popup"
               /\ \E k \in SetupSteps(j) : trace[k].op = "set_search_conditions"
        /\ AccessFailed(j) =>
               /\ j = Len(trace)
               /\ frame.at \in {"raised", "returning", "done", "none"}

\* ---- More claims about save_store_data ----------------------------------
\* A call of save_store_data that has returned its stats.
SaveReturned == sv.at = "returned"

\* C38: in every call of save_store_data each listing of the batch is
\* counted in exactly one outcome: saved + skipped + api_failed + errors is
\* the number of listings, the duplicates are among the skipped, and the
\* provider counters together are at least saved + duplicates.
C38_EachListingCountedOnce ==
    SaveReturned =>
        /\ sv.stats.saved + sv.stats.skipped + sv.stats.api_failed
               + sv.stats.errors = sv.n
        /\ sv.stats.duplicates <= sv.stats.skipped
        /\ sv.stats.naver_success + sv.stats.kakao_success
               >= sv.stats.saved + sv.stats.duplicates

C38_Witness ==
    /\ SaveReturned
    /\ sv.n = 2
    /\ sv.stats.saved = 1
    /\ sv.stats.duplicates = 1
    /\ sv.stats.kakao_success >= 1

(***************************************************************************)
(* Part 14: the dong loop of a traversal and its statistics                *)
(*   crawl_single_region_with_recovery and crawl_single_region_smart: for  *)
(*   every dong, select_dong_and_search, get_total_data_count, the         *)
(*   extraction, save_store_data and the five counters of total_stats.     *)
(***************************************************************************)
\* The most dongs of the district a traversal walks through.
MaxLeaves == 2

LeafEngines == {"with_recovery", "smart"}

\* The traversal has reached the loop over the dongs of a district: the
\* database is empty and total_stats is the dictionary of zeros.
InitLeaf ==
    /\ ExecIdle
    /\ CrawlIdle
    /\ geo = NoGeo
    /\ report = NoReport
    /\ writers = NoWriters
    /\ db = EmptyDb
    /\ failed_stores = <<>>
    /\ csv_file = {}
    /\ crawling_stats = NoCrawlingStats
    /\ sv = NoSave
    /\ run = NoRun
    /\ txn = NoTxn
    /\ route = NoRoute
    /\ ap = NoParse
    /\ \E engine \in LeafEngines, dongs \in 1..MaxLeaves,
          auto_pagination \in BOOLEAN :
           /\ engine = "with_recovery" => auto_pagination
           /\ dong_loop = [at |-> "select", engine |-> engine,
                           auto_pagination |-> auto_pagination,
                           dongs |-> dongs, k |-> 1, left |-> MaxListings,
                           fault_left |-> TRUE, total_count |-> 0,
                           n |-> 0, i |-> 0, stats |-> NoSaveStats,
                           db |-> EmptyDb, failed_stores |-> <<>>,
                           total_stats |-> NoTotals, history |-> <<>>]

\* The end of the loop body for one dong: what the leaf did is noted, and
\* the loop goes on to the next dong or the traversal returns total_stats.
NextDong(l, selected) ==
    [l EXCEPT !.history = Append(@, [selected |-> selected,
                                     total_stats |-> l.total_stats]),
              !.k = @ + 1,
              !.at = IF l.k < l.dongs THEN "select" ELSE "done"]

\* What leaves the loops: the except clause returns total_stats.
LeaveLoops(l, selected) == [NextDong(l, selected) EXCEPT !.at = "done"]

\* (variant: the stores found are taken from the stores saved)
AddLeaf_saved_as_found(total, stores_count, save_stats) ==
    [regions_crawled |-> total.regions_crawled + 1,
     total_stores |-> total.total_stores + save_stats.saved,
     total_saved |-> total.total_saved + save_stats.saved,
     api_success |-> total.api_success + save_stats.naver_success
                         + save_stats.kakao_success,
     api_failed |-> total.api_failed + save_stats.api_failed]

\* "total_stats['regions_crawled'] += 1" and the four lines after it.
AddLeaf(total, stores_count, save_stats) ==
    [regions_crawled |-> total.regions_crawled + 1,
     total_stores |-> total.total_stores + stores_count,
     total_saved |-> total.total_saved + save_stats.saved,
     api_success |-> total.api_success + save_stats.naver_success
                         + save_stats.kakao_success,
     api_failed |-> total.api_failed + save_stats.api_failed]

\* "if total_count == 0: ... total_stats['regions_crawled'] += 1; continue"
\* of crawl_single_region_smart.
AddEmptyLeaf(total) ==
    [total EXCEPT !.regions_crawled = @ + 1]

\* Whether the listings of the leaf are saved in slices of SaveBatchSize:
\* crawl_single_region_with_recovery slices more than BatchSaveThreshold
\* stores, crawl_single_region_smart what it extracted page by page.
SavedInSlices(engine, auto_pagination, total_count, stores_count) ==
    IF engine = "with_recovery" THEN stores_count > BatchSaveThreshold
    ELSE auto_pagination /\ total_count > PaginationThreshold

\* selected_dong = self.select_dong_and_search(dong['index']); a dong that
\* was not selected is logged and left.
LeafSelect ==
    /\ dong_loop.at = "select"
    /\ \E selected_dong \in BOOLEAN :
           dong_loop' = IF selected_dong
                        THEN [dong_loop EXCEPT !.at = "extract"]
                        ELSE NextDong(dong_loop, FALSE)
    /\ UNCHANGED outsideLeaf

\* get_total_data_count and the extraction: an empty result, which
\* crawl_single_region_smart counts as a crawled region, a failed
\* extraction, or the listings that go to the save.
LeafExtract ==
    /\ dong_loop.at = "extract"
    /\ \E total_count \in 0..dong_loop.left, extracted \in BOOLEAN :
           LET empty == dong_loop.engine = "smart" /\ total_count = 0
               data == IF extracted
                       THEN <<[results |-> [j \in 1..total_count |-> j]]>>
                       ELSE None
           IN  /\ empty => extracted
               /\ dong_loop' =
                    IF empty
                    THEN NextDong([dong_loop EXCEPT !.total_stats =
                                       AddEmptyLeaf(@)], TRUE)
                    ELSE IF HasResults(data)
                    THEN [dong_loop EXCEPT !.at = "save",
                              !.total_count = total_count,
                              !.n = Len(data[1].results), !.i = 0,
                              !.stats = NoSaveStats,
                              !.left = @ - total_count]
                    ELSE NextDong(dong_loop, TRUE)
    /\ UNCHANGED outsideLeaf

\* One turn of the loop of save_store_data over the listings of the leaf.
LeafSaveListing ==
    /\ dong_loop.at = "save"
    /\ dong_loop.i < dong_loop.n
    /\ \E listing \in Listings :
       LET fields == Fields(listing)
       IN
       \E fault \in DbFaults,
          result \in SearchResults(fields.name, fields.address) :
           LET o == SaveOne(dong_loop.db, dong_loop.failed_stores,
                            dong_loop.stats, fields, result, fault)
               i == dong_loop.i + 1
               call_ends ==
                   \/ i = dong_loop.n
                   \/ /\ SavedInSlices(dong_loop.engine,
                                    dong_loop.auto_pagination,
                                    dong_loop.total_count, dong_loop.n)
                      /\ i % SaveBatchSize = 0
           IN  /\ fault # "none" => dong_loop.fault_left
               /\ fault # "none" => o.outcome = "error"
               /\ ~o.searched => result = NotFound
               /\ dong_loop' =
                      [dong_loop EXCEPT
                          !.db = o.db, !.failed_stores = o.failed_stores,
                          !.stats = o.stats, !.i = i,
                          !.fault_left = @ /\ fault = "none",
                          !.at = IF call_ends THEN "export" ELSE "save"]
    /\ UNCHANGED outsideLeaf

\* The end of a call of save_store_data: the failed-store export, which
\* re-raises what goes wrong in it, and the return of the stats; after the
\* last call of the leaf the traversal adds them to total_stats.
LeafSaveReturn ==
    /\ dong_loop.at = "export"
    /\ \E export \in {"ok", "raises"} :
           /\ export = "raises" => dong_loop.failed_stores # <<>>
           /\ dong_loop' =
                  IF export = "raises" THEN LeaveLoops(dong_loop, TRUE)
                  ELSE IF dong_loop.i < dong_loop.n
                  THEN [dong_loop EXCEPT !.at = "save"]
                  ELSE NextDong([dong_loop EXCEPT !.total_stats =
                                     AddLeaf(@, dong_loop.n, dong_loop.stats)],
                                TRUE)
    /\ UNCHANGED outsideLeaf

NextLeafLoop ==
    \/ LeafSelect
    \/ LeafExtract
    \/ LeafSaveListing
    \/ LeafSaveReturn

SpecLeaf == InitLeaf /\ [][NextLeafLoop]_vars

\* total_stats before the j-th dong of the loop.
TotalsBefore(j) ==
    IF j = 1 THEN NoTotals ELSE dong_loop.history[j - 1].total_stats

TotalKeys == DOMAIN NoTotals

\* C39: the run statistics satisfy total_saved <= api_success and
\* api_success + api_failed <= total_stores, no counter is negative or ever
\* decreases, and regions_crawled grows by at most one per dong leaf and
\* only for a leaf whose select_dong_and_search succeeded.
C39_TotalsAreConsistent ==
    LET t == dong_loop.total_stats
        h == dong_loop.history
    IN  /\ t.total_saved <= t.api_success
        /\ t.api_success + t.api_failed <= t.total_stores
        /\ \A key \in TotalKeys : t[key] >= 0
        /\ \A key \in TotalKeys : t[key] >= TotalsBefore(Len(h) + 1)[key]
        /\ \A j \in 1..Len(h) :
               /\ \A key \in TotalKeys :
                      h[j].total_stats[key] >= TotalsBefore(j)[key]
               /\ h[j].total_stats.regions_crawled
                      <= TotalsBefore(j).regions_crawled + 1
               /\ h[j].total_stats.regions_crawled
                      > TotalsBefore(j).regions_crawled => h[j].selected

C39_Witness ==
    /\ dong_loop.at = "done"
    /\ Len(dong_loop.history) = 2
    /\ ~dong_loop.history[1].selected
    /\ dong_loop.history[2].selected
    /\ dong_loop.total_stats.regions_crawled = 1
    /\ dong_loop.total_stats.total_stores = 2
    /\ dong_loop.total_stats.total_saved = 1
    /\ dong_loop.total_stats.api_failed = 1

====
